---- MODULE Spec2Model ----
(***************************************************************************)
(* A model of tools/codediff/codediff.py: the log parsers (LogParser and   *)
(* LogParserGTest), the shard merge TestRun.join, and the comparison       *)
(* TestDifferences with the exit code of the diff subcommand.              *)
(*                                                                         *)
(* Python's None is the string "None".  A raised exception is recorded in  *)
(* a field `raised` of the object the call was made on; a call on an       *)
(* object that has raised does nothing (the program has stopped).          *)
(***************************************************************************)
EXTENDS Integers, Sequences, FiniteSets, Bags, TLC

\* ------------------------------------------------------------------ bounds
\* Longest log fed to a parser, in lines.
MaxLines == 6

\* The most kernels a test of a compared run has.
MaxKernels == 2

\* ------------------------------------------------------------- vocabulary
NoneVal == "None"
UngroupedName == "Ungrouped Kernels"

\* A Python string is a sequence of tokens, a list a sequence; None, where a
\* string or a list is optional, is NoneSeq.
NoneSeq == <<NoneVal>>

\* Names of the kernel files announced in a log: the n-th announcement of a
\* run names the n-th file (the compiler numbers its kernel files, so no two
\* announcements of one run name the same file).
CuNames == <<"k1.cu", "k2.cu", "k3.cu", "k4.cu", "k5.cu", "k6.cu", "k7.cu", "k8.cu">>

\* Test identifiers carried by the "[ RUN      ] " lines of a log.
TestNames == {"T1", "T2"}

\* The text of a "Launch Parameters: " line: two well-shaped lines with
\* different values, and one line that the pattern of parse_launch_params
\* does not match.
BadShape == "bad"
LaunchTexts == {"L1", "L2", BadShape}

\* A log line after ANSI stripping and rstrip (LogParser.parse), by the
\* prefix tests of the parsers.
\*   cu      "PRINTING: <file>.cu"        other_printing  "PRINTING: <not .cu>"
\*   ptxas   "ptxas ..."                  launch          "Launch Parameters: ..."
\*   run     "[ RUN      ] <name>"        ok              "[       OK ] ..."
\*   failed  "[  FAILED  ] ..."           other           anything else
BaseLines ==
    {[kind |-> "cu", text |-> ""], [kind |-> "other_printing", text |-> ""],
     [kind |-> "ptxas", text |-> "p"], [kind |-> "other", text |-> ""]}
    \cup {[kind |-> "launch", text |-> t] : t \in LaunchTexts}

\* A "[ RUN      ] " line may end with its prefix once the ANSI codes are
\* removed (rstrip runs before the removal): its test identifier is "".
GTestLines ==
    {[kind |-> "run", text |-> n] : n \in TestNames \cup {""}}
    \cup {[kind |-> "ok", text |-> ""], [kind |-> "failed", text |-> ""]}

\* -------------------------------------------------------- CompiledKernel
\* CompiledKernel.parse_launch_params: the launch parameters kept from the
\* lines of launch_params_str, "None" when there is no line, or "raise" when
\* a line is reached that the pattern does not match (m is None, and
\* m.groups() raises AttributeError).  lp is self.launch_params so far.
RECURSIVE parse_launch_params(_, _)
parse_launch_params(lines, lp) ==
    IF lines = <<>> THEN lp
    ELSE LET line == Head(lines) IN
         IF line = BadShape THEN "raise"
         ELSE IF lp = NoneVal THEN parse_launch_params(Tail(lines), line)
         ELSE IF line # lp THEN lp
         ELSE parse_launch_params(Tail(lines), lp)

\* CompiledKernel(filename, ptxas_info=..., launch_params_str=...), with
\* __post_init__ run: the record, its launch_params being "raise" when
\* parse_launch_params raised.
CompiledKernel(filename, ptxas_info, launch_params_str) ==
    [filename |-> filename,
     ptxas_info |-> ptxas_info,
     launch_params_str |-> launch_params_str,
     launch_params |-> parse_launch_params(launch_params_str, NoneVal),
     code |-> NoneSeq,
     ptx |-> NoneSeq,
     index_type |-> NoneVal]

\* CompiledTest(name, kernels, passed), benchmark_result at its default
CompiledTest(name, kernels, passed) ==
    [name |-> name, kernels |-> kernels, passed |-> passed,
     benchmark_result |-> NoneVal]

\* ------------------------------------------------------------- LogParser
\* reset_kernel_state that leaves the two diagnostic buffers as they are.
reset_kernel_state_keeps_buffers(s) ==
    [s EXCEPT !.current_file = NoneVal]

\* LogParser.reset_kernel_state
reset_kernel_state(s) ==
    [s EXCEPT !.current_file = NoneVal,
              !.ptxas_info = <<>>,
              !.launch_params_str = <<>>]

\* reset_test_state without `self.kernels = []`: the pending list is kept
\* across tests.
reset_test_state_keeps_kernels(s) ==
    [reset_kernel_state(s) EXCEPT !.current_test = NoneVal]

\* LogParser.reset_test_state
reset_test_state(s) ==
    [reset_kernel_state(s) EXCEPT !.current_test = NoneVal, !.kernels = <<>>]

\* LogParser.__init__ up to the call of parse
NewParser ==
    [kernel_map |-> <<>>,
     current_file |-> NoneVal,
     ptxas_info |-> <<>>,
     launch_params_str |-> <<>>,
     current_test |-> NoneVal,
     kernels |-> <<>>,
     raised |-> NoneVal]

\* LogParser.finalize_kernel
finalize_kernel(s) ==
    IF s.current_file # NoneVal
    THEN LET k == CompiledKernel(s.current_file, s.ptxas_info, s.launch_params_str) IN
         IF k.launch_params = "raise"
         THEN [s EXCEPT !.raised = "AttributeError"]
         ELSE reset_kernel_state([s EXCEPT !.kernels = Append(@, k)])
    ELSE reset_kernel_state(s)

\* dict assignment d[key] = value
SetItem(d, key, value) == (key :> value) @@ d

\* LogParser.finalize_test
finalize_test(s, passed) ==
    IF s.current_test = NoneVal
    THEN [s EXCEPT !.raised = "AssertionError"]
    ELSE LET s1 == finalize_kernel(s) IN
         IF s1.raised # NoneVal THEN s1
         ELSE reset_test_state(
                [s1 EXCEPT !.kernel_map =
                    SetItem(@, s1.current_test,
                            CompiledTest(s1.current_test, s1.kernels, passed))])

\* LogParser.finalize
finalize(s) ==
    IF Len(s.kernels) > 0
    THEN [s EXCEPT !.kernel_map =
            SetItem(@, UngroupedName, CompiledTest(UngroupedName, s.kernels, TRUE))]
    ELSE s

\* parse_line without the tests of current_file: a diagnostic line is kept in
\* its buffer whether or not a kernel is in flight.
parse_line_buffering_always(s, line, file) ==
    IF line.kind = "cu"
    THEN [s |-> [finalize_kernel(s) EXCEPT !.current_file =
                    IF finalize_kernel(s).raised = NoneVal THEN file ELSE @],
          consumed |-> TRUE]
    ELSE IF line.kind = "other_printing"
    THEN [s |-> s, consumed |-> TRUE]
    ELSE IF line.kind = "ptxas"
    THEN [s |-> [s EXCEPT !.ptxas_info = Append(@, line.text)], consumed |-> TRUE]
    ELSE IF line.kind = "launch"
    THEN [s |-> [s EXCEPT !.launch_params_str = Append(@, line.text)],
          consumed |-> TRUE]
    ELSE [s |-> s, consumed |-> FALSE]

\* LogParser.parse_line: the parser after the line and whether the line was
\* consumed.  file is the name the line announces when it is a "cu" line.
parse_line(s, line, file) ==
    IF line.kind = "cu"
    THEN [s |-> [finalize_kernel(s) EXCEPT !.current_file =
                    IF finalize_kernel(s).raised = NoneVal THEN file ELSE @],
          consumed |-> TRUE]
    ELSE IF line.kind = "other_printing"
    THEN [s |-> s, consumed |-> TRUE]
    ELSE IF line.kind = "ptxas"
    THEN IF s.current_file = NoneVal
         THEN [s |-> s, consumed |-> FALSE]
         ELSE [s |-> [s EXCEPT !.ptxas_info = Append(@, line.text)], consumed |-> TRUE]
    ELSE IF line.kind = "launch"
    THEN IF s.current_file = NoneVal
         THEN [s |-> s, consumed |-> FALSE]
         ELSE [s |-> [s EXCEPT !.launch_params_str = Append(@, line.text)],
               consumed |-> TRUE]
    ELSE [s |-> s, consumed |-> FALSE]

\* LogParserGTest.parse_line whose FAILED branch has no condition.
GTest_parse_line_failed_unguarded(s, line, file) ==
    LET base == parse_line(s, line, file) IN
    IF base.consumed \/ base.s.raised # NoneVal THEN base.s
    ELSE IF line.kind = "run"
    THEN [s EXCEPT !.current_test = line.text]
    ELSE IF line.kind = "ok"
    THEN finalize_test(s, TRUE)
    ELSE IF line.kind = "failed"
    THEN finalize_test(s, FALSE)
    ELSE s

\* LogParserGTest.parse_line
GTest_parse_line(s, line, file) ==
    LET base == parse_line(s, line, file) IN
    IF base.consumed \/ base.s.raised # NoneVal THEN base.s
    ELSE IF line.kind = "run"
    THEN [s EXCEPT !.current_test = line.text]
    ELSE IF line.kind = "ok"
    THEN finalize_test(s, TRUE)
    ELSE IF line.kind = "failed"
    THEN IF s.current_test # NoneVal /\ s.current_file # NoneVal
         THEN finalize_test(s, FALSE)
         ELSE s
    ELSE s

\* --------------------------------------------------------------- TestRun
\* A store of the objects join works on: shards, the TestRun objects by
\* shard; heap, the CompiledTest objects by identity (the kernel maps hold
\* references to them); raised, the exception the last call raised.
\* A TestRun's kernel_map is a dict: keys, its names in insertion order, and
\* at, the reference stored under each name.
Raise(st, exc) == [st EXCEPT !.raised = exc]

\* self.kernel_map[test_name] of run r
TestOfRun(st, r, test_name) == st.heap[st.shards[r].kernel_map.at[test_name]]

\* TestRun.join, the asserts on "stuff that has to match", with the
\* command type not compared.
join_preconditions_without_command_type(self, other) ==
    /\ self.git = other.git
    /\ self.preamble_size_lines = other.preamble_size_lines
    /\ self.preamble = other.preamble

\* TestRun.join, the asserts on "stuff that has to match"
join_preconditions(self, other) ==
    /\ self.git = other.git
    /\ self.preamble_size_lines = other.preamble_size_lines
    /\ self.preamble = other.preamble
    /\ self.command_type = other.command_type

\* TestRun.join: nvcc_version
join_nvcc_version(st, r, d) ==
    LET self == st.shards[r]
        other == st.shards[d] IN
    IF other.nvcc_version # self.nvcc_version
    THEN IF self.nvcc_version = NoneSeq \/ other.nvcc_version = NoneSeq
         THEN Raise(st, "TypeError")
         ELSE [st EXCEPT !.shards[r].nvcc_version = @ \o other.nvcc_version]
    ELSE st

\* TestRun.join: env.  The donor's env is formatted into an f-string, so a
\* donor without env adds the text "None".
join_env(st, r, d) ==
    LET self == st.shards[r]
        other == st.shards[d] IN
    IF other.env # self.env
    THEN IF self.env = NoneSeq
         THEN Raise(st, "TypeError")
         ELSE [st EXCEPT !.shards[r].env = @ \o <<"\n">> \o other.env]
    ELSE st

\* TestRun.join: gpu_names
join_gpu_names(st, r, d) ==
    LET self == st.shards[r]
        other == st.shards[d] IN
    IF self.gpu_names = NoneSeq \/ other.gpu_names = NoneSeq
    THEN Raise(st, "TypeError")
    ELSE [st EXCEPT !.shards[r].gpu_names = @ \o other.gpu_names]

\* TestRun.join: command and exit_code, the exit code a flag (1 when either
\* code is non-zero) in place of the sum.
join_command_and_exit_flag(st, r, d) ==
    [st EXCEPT !.shards[r].command = @ \o <<" && ">> \o st.shards[d].command,
               !.shards[r].exit_code =
                    IF @ # 0 \/ st.shards[d].exit_code # 0 THEN 1 ELSE 0]

\* TestRun.join: command and exit_code
join_command_and_exit_code(st, r, d) ==
    [st EXCEPT !.shards[r].command = @ \o <<" && ">> \o st.shards[d].command,
               !.shards[r].exit_code = @ + st.shards[d].exit_code]

\* The test `test_name in self.kernel_map` of the named-test assert, never
\* finding the name.
has_test_never(kernel_map, test_name) == FALSE

\* test_name in self.kernel_map, in the assert on a named test
has_test(kernel_map, test_name) == test_name \in DOMAIN kernel_map.at

\* The donor's kernels put before the receiver's.
extend_kernels_in_front(mine, theirs) == theirs \o mine

\* The receiver's kernels kept, the donor's dropped.
extend_kernels_dropped(mine, theirs) == mine

\* self.kernel_map[test_name].kernels += test_obj.kernels
extend_kernels(mine, theirs) == mine \o theirs

\* TestRun.join: the body of the loop over other.kernel_map.items() for the
\* item test_name, test_obj (a reference).
join_test(st, r, d, test_name, test_obj) ==
    LET self == st.shards[r] IN
    IF st.heap[test_obj].name # test_name THEN Raise(st, "AssertionError")
    ELSE IF test_name = UngroupedName /\ test_name \in DOMAIN self.kernel_map.at
    THEN LET mine == self.kernel_map.at[test_name]
             h1 == [st.heap EXCEPT ![mine].kernels =
                        extend_kernels(@, st.heap[test_obj].kernels)]
             h2 == IF ~h1[test_obj].passed
                   THEN [h1 EXCEPT ![mine].passed = FALSE]
                   ELSE h1
             st2 == [st EXCEPT !.heap = h2] IN
         IF h2[mine].benchmark_result # NoneVal \/ h2[test_obj].benchmark_result # NoneVal
         THEN Raise(st2, "AssertionError")
         ELSE st2
    ELSE IF test_name # UngroupedName /\ has_test(self.kernel_map, test_name)
    THEN Raise(st, "AssertionError")
    ELSE [st EXCEPT !.shards[r].kernel_map =
            [keys |-> IF test_name \in DOMAIN @.at THEN @.keys ELSE Append(@.keys, test_name),
             at |-> SetItem(@.at, test_name, test_obj)]]

\* TestRun.join: the loop over other.kernel_map.items(), from its i-th item.
RECURSIVE join_kernel_maps(_, _, _, _)
join_kernel_maps(st, r, d, i) ==
    LET theirs == st.shards[d].kernel_map IN
    IF st.raised # NoneVal \/ i > Len(theirs.keys) THEN st
    ELSE join_kernel_maps(
            join_test(st, r, d, theirs.keys[i], theirs.at[theirs.keys[i]]), r, d, i + 1)

\* TestRun.join: self is shard r, other is shard d.
join(st, r, d) ==
    LET s0 == IF join_preconditions(st.shards[r], st.shards[d])
              THEN st ELSE Raise(st, "AssertionError")
        s1 == IF s0.raised # NoneVal THEN s0 ELSE join_nvcc_version(s0, r, d)
        s2 == IF s1.raised # NoneVal THEN s1 ELSE join_env(s1, r, d)
        s3 == IF s2.raised # NoneVal THEN s2 ELSE join_gpu_names(s2, r, d)
        s4 == IF s3.raised # NoneVal THEN s3 ELSE join_command_and_exit_code(s3, r, d) IN
    join_kernel_maps(s4, r, d, 1)

\* ---------------------------------------------------------------- strings
\* A string is a sequence of tokens (words, punctuation, and the whitespace
\* tokens " " and "\n"); a list of lines is a sequence of strings.
IsSpace(t) == t \in {" ", "\n"}

\* str.rstrip()
RECURSIVE rstrip(_)
rstrip(str) ==
    IF str # <<>> /\ IsSpace(str[Len(str)])
    THEN rstrip(SubSeq(str, 1, Len(str) - 1))
    ELSE str

\* The lines of str, each without its "\n" when keepends is FALSE and with it
\* when TRUE, from the line that starts with the tokens of cur.
RECURSIVE split_lines(_, _, _)
split_lines(str, cur, keepends) ==
    IF str = <<>> THEN (IF cur = <<>> THEN <<>> ELSE <<cur>>)
    ELSE IF Head(str) = "\n"
    THEN <<IF keepends THEN Append(cur, "\n") ELSE cur>>
            \o split_lines(Tail(str), <<>>, keepends)
    ELSE split_lines(Tail(str), Append(cur, Head(str)), keepends)

\* str.splitlines()
splitlines(str) == split_lines(str, <<>>, FALSE)

\* f.readlines()
readlines(str) == split_lines(str, <<>>, TRUE)

\* "".join(lines)
RECURSIVE concat(_)
concat(lines) == IF lines = <<>> THEN <<>> ELSE Head(lines) \o concat(Tail(lines))

\* The identifiers that the pattern \bnvfuser_\d+\b matches.
NvfuserIds == {"nvfuser_1", "nvfuser_2"}

\* The line with its identifiers left as they are.
sub_nothing(line) == line

\* re.sub(r"\bnvfuser_\d+\b", "nvfuser_N", line)
sub_nvfuser(line) ==
    [k \in 1..Len(line) |-> IF line[k] \in NvfuserIds THEN "nvfuser_N" ELSE line[k]]

\* re.search(r"typedef\s+(\S*)\s+nvfuser_index_t;", line): the type named,
\* or "None" when the line has no such typedef.
typedef_index_type(line) ==
    LET at == {k \in 1..(Len(line) - 4) :
                  /\ line[k] = "typedef" /\ IsSpace(line[k + 1])
                  /\ ~IsSpace(line[k + 2]) /\ IsSpace(line[k + 3])
                  /\ line[k + 4] = "nvfuser_index_t;"} IN
    IF at = {} THEN NoneVal
    ELSE line[(CHOOSE k \in at : \A j \in at : k <= j) + 2]

\* TestRun.get_kernel, the loop over the lines of the file: the index type
\* after lines i.. (index_type so far given).
RECURSIVE scan_index_type(_, _, _)
scan_index_type(lines, i, index_type) ==
    IF i > Len(lines) \/ index_type # NoneVal THEN index_type
    ELSE scan_index_type(lines, i + 1, typedef_index_type(lines[i]))

\* TestRun.get_kernel, the loop over the lines of the file: the code
\* collected from lines i.. (1-based; the first skip lines are not kept).
RECURSIVE collect_code(_, _, _)
collect_code(lines, i, skip) ==
    IF i > Len(lines) THEN <<>>
    ELSE (IF i > skip THEN sub_nvfuser(lines[i]) ELSE <<>>)
            \o collect_code(lines, i + 1, skip)

\* TestRun.get_kernel without its statement kern.code = "": the lines read
\* are appended to the code the kernel already has.
get_kernel_appending(st, r, test_name, kernel_number, strip_preamble) ==
    LET run == st.shards[r]
        obj == run.kernel_map.at[test_name]
        kern == TestOfRun(st, r, test_name).kernels[kernel_number] IN
    IF kern.filename \notin DOMAIN run.files
    THEN Raise([st EXCEPT !.heap[obj].kernels[kernel_number].code = <<>>],
               "FileNotFoundError")
    ELSE
    LET file == run.files[kern.filename]
        lines == readlines(file.cu)
        index_type == scan_index_type(lines, 1, kern.index_type)
        skip == IF strip_preamble THEN run.preamble_size_lines ELSE 0
        code == rstrip((IF kern.code = NoneSeq THEN <<>> ELSE kern.code)
                       \o collect_code(lines, 1, skip)) IN
    IF strip_preamble /\ code = <<>>
    THEN Raise([st EXCEPT !.heap[obj].kernels[kernel_number].code = code,
                          !.heap[obj].kernels[kernel_number].index_type = index_type],
               "IndexError")
    ELSE [st EXCEPT
            !.heap[obj].kernels[kernel_number].code =
                IF strip_preamble /\ code[Len(code)] = "}"
                THEN rstrip(SubSeq(code, 1, Len(code) - 1))
                ELSE code,
            !.heap[obj].kernels[kernel_number].index_type = index_type,
            !.heap[obj].kernels[kernel_number].ptx =
                IF file.ptx = NoneSeq THEN @ ELSE rstrip(file.ptx)]

\* TestRun.get_kernel on kernel kernel_number (1-based here) of test
\* test_name of run r: the store with the kernel's code, ptx and index_type
\* loaded from the run directory.
get_kernel(st, r, test_name, kernel_number, strip_preamble) ==
    LET run == st.shards[r]
        obj == run.kernel_map.at[test_name]
        kern == TestOfRun(st, r, test_name).kernels[kernel_number] IN
    IF kern.filename \notin DOMAIN run.files
    THEN Raise([st EXCEPT !.heap[obj].kernels[kernel_number].code = <<>>],
               "FileNotFoundError")
    ELSE
    LET file == run.files[kern.filename]
        lines == readlines(file.cu)
        index_type == scan_index_type(lines, 1, kern.index_type)
        skip == IF strip_preamble THEN run.preamble_size_lines ELSE 0
        code == rstrip(collect_code(lines, 1, skip)) IN
    IF strip_preamble /\ code = <<>>
    THEN Raise([st EXCEPT !.heap[obj].kernels[kernel_number].code = code,
                          !.heap[obj].kernels[kernel_number].index_type = index_type],
               "IndexError")
    ELSE [st EXCEPT
            !.heap[obj].kernels[kernel_number].code =
                IF strip_preamble /\ code[Len(code)] = "}"
                THEN rstrip(SubSeq(code, 1, Len(code) - 1))
                ELSE code,
            !.heap[obj].kernels[kernel_number].index_type = index_type,
            !.heap[obj].kernels[kernel_number].ptx =
                IF file.ptx = NoneSeq THEN @ ELSE rstrip(file.ptx)]

\* ------------------------------------------------------------ DiffEngine
\* Lines of context in a unified diff (n=5).
Context == 5

\* An optional list (list[...] | None): None, or the list v.
NoneList == [is_none |-> TRUE, v |-> <<>>]

SomeList(v) == [is_none |-> FALSE, v |-> v]

RECURSIVE CommonPrefixLen(_, _)
CommonPrefixLen(a, b) ==
    IF a = <<>> \/ b = <<>> \/ Head(a) # Head(b) THEN 0
    ELSE 1 + CommonPrefixLen(Tail(a), Tail(b))

Reverse(q) == [k \in 1..Len(q) |-> q[Len(q) + 1 - k]]

Mark(sign, lines) == [k \in 1..Len(lines) |-> <<sign>> \o lines[k]]

\* list(difflib.unified_diff(a, b, fromfile=, tofile=, n=5)) for lists of
\* lines whose changed region has no line in common (one block of removed
\* and added lines): nothing when a = b; else the two file headers and the
\* hunk header (its line ranges left out), each ended by the default
\* lineterm, and the hunk: up to Context common lines, the lines of a
\* removed ("-"), the lines of b added ("+"), up to Context common lines.
unified_diff(a, b, fromfile, tofile) ==
    IF a = b THEN <<>>
    ELSE LET pre == CommonPrefixLen(a, b)
             ra == SubSeq(a, pre + 1, Len(a))
             rb == SubSeq(b, pre + 1, Len(b))
             suf == CommonPrefixLen(Reverse(ra), Reverse(rb))
             lead == IF pre > Context THEN Context ELSE pre
             trail == IF suf > Context THEN Context ELSE suf IN
         <<<<"---", " ">> \o fromfile \o <<"\n">>,
           <<"+++", " ">> \o tofile \o <<"\n">>,
           <<"@@", "\n">>>>
            \o Mark(" ", SubSeq(a, pre - lead + 1, pre))
            \o Mark("-", SubSeq(ra, 1, Len(ra) - suf))
            \o Mark("+", SubSeq(rb, 1, Len(rb) - suf))
            \o Mark(" ", SubSeq(ra, Len(ra) - suf + 1, Len(ra) - suf + trail))

\* "\n".join(lines)
RECURSIVE join_lines(_)
join_lines(lines) ==
    IF lines = <<>> THEN <<>>
    ELSE IF Len(lines) = 1 THEN lines[1]
    ELSE lines[1] \o <<"\n">> \o join_lines(Tail(lines))

\* Within a mangled symbol every token is one character: the digits of the
\* length prefixes and the characters of the names.
Digits == {"0", "1", "2", "3", "4", "5", "6", "7", "8", "9"}

DigitValue(t) == CHOOSE v \in 0..9 : <<"0", "1", "2", "3", "4", "5", "6", "7", "8", "9">>[v + 1] = t

\* The number of digits at the start of str (the match of \d+).
RECURSIVE DigitRun(_)
DigitRun(str) ==
    IF str # <<>> /\ Head(str) \in Digits THEN 1 + DigitRun(Tail(str)) ELSE 0

\* int(digits)
RECURSIVE int(_)
int(digits) ==
    IF digits = <<>> THEN 0
    ELSE 10 * int(SubSeq(digits, 1, Len(digits) - 1)) + DigitValue(digits[Len(digits)])

\* str[n:]
From(str, n) == SubSeq(str, (IF n < Len(str) THEN n ELSE Len(str)) + 1, Len(str))

\* The tokens that are not word characters, before which \b matches.
NonWord == {" ", "\n", "(", ")", ",", "//"}

\* The places of l where the pattern ^.*\b_Z?ZN(\d+)_ can end its prefix.
MangledAt(l) ==
    {k \in 1..Len(l) :
        /\ l[k] \in {"_ZN", "_ZZN"}
        /\ k = 1 \/ l[k - 1] \in NonWord
        /\ DigitRun(From(l, k)) > 0
        /\ k + DigitRun(From(l, k)) < Len(l)
        /\ l[k + DigitRun(From(l, k)) + 1] = "_"}

\* sanitize_ptx_lines, the demangling of the second part: the remainder
\* after the scope name, its length-prefixed name replaced by "6kernel".
demangle_remainder(remainder) ==
    IF DigitRun(remainder) > 0
    THEN <<"6kernel">>
            \o From(remainder,
                    DigitRun(remainder) + int(SubSeq(remainder, 1, DigitRun(remainder))))
    ELSE remainder

\* sanitize_ptx_lines, the demangling of a line: the scope name and the
\* kernel name after the last _ZN (the prefix .* is greedy) replaced.
demangle(l) ==
    IF MangledAt(l) = {} THEN l
    ELSE LET k == CHOOSE k \in MangledAt(l) : \A j \in MangledAt(l) : j <= k
             nd == DigitRun(From(l, k))
             scopenamelen == int(SubSeq(l, k + 1, k + nd)) IN
         SubSeq(l, 1, k) \o <<"11kernelscope">>
            \o demangle_remainder(From(l, k + nd + scopenamelen))

\* re.sub(r"//.*$", "", l)
strip_comment(l) ==
    LET cut == {k \in 1..Len(l) : l[k] = "//"} IN
    IF cut = {} THEN l
    ELSE SubSeq(l, 1, (CHOOSE k \in cut : \A j \in cut : k <= j) - 1)

\* sanitize_ptx_lines on one line, the symbol left mangled.
strip_comment_only(l) == strip_comment(l)

\* sanitize_ptx_lines on one line: the mangled kernel symbol replaced, and
\* the text from "//" on removed.
sanitize_ptx_line(l) == strip_comment(demangle(l))

\* sanitize_ptx_lines
sanitize_ptx_lines(lines) == [k \in 1..Len(lines) |-> sanitize_ptx_line(lines[k])]

\* The number of lines of diff_lines with line[:2] equal to sign then " ".
count_lines(diff_lines, sign) ==
    Cardinality({k \in 1..Len(diff_lines) :
                    /\ Len(diff_lines[k]) >= 2
                    /\ diff_lines[k][1] = sign /\ diff_lines[k][2] = " "})

\* KernelDiff(testname, kernel_num, kern1, kern2, diff_lines,
\* ptx_diff_lines=ptx_diff_lines), with __post_init__ run.
KernelDiff(testname, kernel_num, diff_lines, ptx_diff_lines) ==
    [testname |-> testname,
     kernel_num |-> kernel_num,
     diff |-> join_lines(diff_lines),
     new_lines |-> count_lines(diff_lines, "+"),
     removed_lines |-> count_lines(diff_lines, "-"),
     ptx_diff |-> IF ptx_diff_lines.is_none THEN NoneSeq ELSE join_lines(ptx_diff_lines.v),
     new_ptx_lines |->
        IF ptx_diff_lines.is_none THEN 0 ELSE count_lines(ptx_diff_lines.v, "+"),
     removed_ptx_lines |->
        IF ptx_diff_lines.is_none THEN 0 ELSE count_lines(ptx_diff_lines.v, "-")]

\* TestDiff(testname, compiled_test1, compiled_test2, kernel_diffs);
\* kernel_diffs is an optional list.
TestDiff(testname, kernel_diffs) == [testname |-> testname, kernel_diffs |-> kernel_diffs]

\* The condition of TestDifferences.__post_init__ under which a compared
\* kernel pair is made a KernelDiff, with every pair admitted.
kernel_included_always(criterion, diff_lines, ptx_diff_lines) == TRUE

\* The condition of TestDifferences.__post_init__ under which a compared
\* kernel pair is made a KernelDiff.
kernel_included(criterion, diff_lines, ptx_diff_lines) ==
    \/ criterion = "all"
    \/ criterion = "mismatched_cuda_or_ptx" /\ Len(diff_lines) > 0
    \/ /\ criterion \in {"mismatched_cuda_or_ptx", "mismatched_ptx"}
       /\ ~ptx_diff_lines.is_none
       /\ Len(ptx_diff_lines.v) > 0

\* get_kernel(testname, i) for i in range(len(test.kernels)), from kernel i
\* (1-based here), for a test held by run r alone.  (In these operators a
\* value bound by "v \in {e}" is e, computed once.)
RECURSIVE load_kernels(_, _, _, _)
load_kernels(st, r, testname, i) ==
    IF st.raised # NoneVal \/ i > Len(TestOfRun(st, r, testname).kernels) THEN st
    ELSE CHOOSE res \in {load_kernels(s1, r, testname, i + 1) :
                            s1 \in {get_kernel(st, r, testname, i, TRUE)}} : TRUE

\* TestDifferences.__post_init__, the kernel loop: kern1 and kern2 loaded.
load_pair(st, testname, kernel_num) ==
    CHOOSE res \in {IF s1.raised # NoneVal THEN s1
                    ELSE get_kernel(s1, 2, testname, kernel_num, TRUE) :
                        s1 \in {get_kernel(st, 1, testname, kernel_num, TRUE)}} : TRUE

\* diff_pair without the statement that adds 1 to total_num_diffs.
diff_pair_uncounted(x, s2, testname, kernel_num, criterion) ==
    IF s2.raised # NoneVal THEN [x EXCEPT !.st = s2]
    ELSE
    LET kern1 == TestOfRun(s2, 1, testname).kernels[kernel_num]
        kern2 == TestOfRun(s2, 2, testname).kernels[kernel_num]
        ptx_diff_lines ==
            IF kern1.ptx # NoneSeq /\ kern2.ptx # NoneSeq
            THEN SomeList(unified_diff(sanitize_ptx_lines(splitlines(kern1.ptx)),
                                       sanitize_ptx_lines(splitlines(kern2.ptx)),
                                       s2.shards[1].name, s2.shards[2].name))
            ELSE NoneList
        diff_lines == unified_diff(splitlines(kern1.code), splitlines(kern2.code),
                                   s2.shards[1].name, s2.shards[2].name) IN
    IF kernel_included(criterion, diff_lines, ptx_diff_lines)
    THEN [x EXCEPT
            !.st = s2,
            !.kernel_diffs =
                Append(@, KernelDiff(testname, kernel_num, diff_lines, ptx_diff_lines))]
    ELSE [x EXCEPT !.st = s2]

\* TestDifferences.__post_init__, the kernel loop: the two diffs of the pair
\* loaded in store s2, and its KernelDiff when the criterion includes it.
diff_pair(x, s2, testname, kernel_num, criterion) ==
    IF s2.raised # NoneVal THEN [x EXCEPT !.st = s2]
    ELSE
    LET kern1 == TestOfRun(s2, 1, testname).kernels[kernel_num]
        kern2 == TestOfRun(s2, 2, testname).kernels[kernel_num]
        ptx_diff_lines ==
            IF kern1.ptx # NoneSeq /\ kern2.ptx # NoneSeq
            THEN SomeList(unified_diff(sanitize_ptx_lines(splitlines(kern1.ptx)),
                                       sanitize_ptx_lines(splitlines(kern2.ptx)),
                                       s2.shards[1].name, s2.shards[2].name))
            ELSE NoneList
        diff_lines == unified_diff(splitlines(kern1.code), splitlines(kern2.code),
                                   s2.shards[1].name, s2.shards[2].name) IN
    IF kernel_included(criterion, diff_lines, ptx_diff_lines)
    THEN [x EXCEPT
            !.st = s2,
            !.td.total_num_diffs = @ + 1,
            !.kernel_diffs =
                Append(@, KernelDiff(testname, kernel_num, diff_lines, ptx_diff_lines))]
    ELSE [x EXCEPT !.st = s2]

\* TestDifferences.__post_init__: the loop over range(minimum_kernel_count),
\* from kernel_num (1-based here, as KernelDiff.kernel_num is).  x is the
\* computation so far: st the store, td the TestDifferences, kernel_diffs
\* the list of this test.
RECURSIVE diff_kernels(_, _, _, _, _)
diff_kernels(x, testname, kernel_num, minimum_kernel_count, criterion) ==
    IF x.st.raised # NoneVal \/ kernel_num > minimum_kernel_count THEN x
    ELSE CHOOSE res \in
            {diff_kernels(x2, testname, kernel_num + 1, minimum_kernel_count, criterion) :
                x2 \in {diff_pair(x, s2, testname, kernel_num, criterion) :
                            s2 \in {load_pair(x.st, testname, kernel_num)}}} : TRUE

\* TestDifferences.__post_init__: the body of the loop over
\* run1.kernel_map.items() for the test testname.
diff_test(x, testname, criterion) ==
    IF testname \notin DOMAIN x.st.shards[2].kernel_map.at
    THEN CHOOSE res \in
            {IF s1.raised # NoneVal THEN [x EXCEPT !.st = s1]
             ELSE [x EXCEPT !.st = s1, !.td.removed_tests = Append(@, testname)] :
                s1 \in {load_kernels(x.st, 1, testname, 1)}} : TRUE
    ELSE
    LET test1_kernel_count == Len(TestOfRun(x.st, 1, testname).kernels)
        test2_kernel_count == Len(TestOfRun(x.st, 2, testname).kernels)
        minimum_kernel_count == IF test1_kernel_count < test2_kernel_count
                                THEN test1_kernel_count ELSE test2_kernel_count
        x1 == IF test1_kernel_count # test2_kernel_count
              THEN [x EXCEPT !.td.test_diffs = Append(@, TestDiff(testname, NoneList))]
              ELSE x IN
    CHOOSE res \in
        {IF x2.st.raised # NoneVal THEN x2
         ELSE IF Len(x2.kernel_diffs) > 0
         THEN [x2 EXCEPT !.td.test_diffs =
                 Append(@, TestDiff(testname, SomeList(x2.kernel_diffs)))]
         ELSE x2 :
            x2 \in {diff_kernels([x1 EXCEPT !.kernel_diffs = <<>>], testname, 1,
                                 minimum_kernel_count, criterion)}} : TRUE

\* TestDifferences.__post_init__: the loop over run1.kernel_map.items(), from
\* its i-th item.
RECURSIVE diff_tests(_, _, _)
diff_tests(x, i, criterion) ==
    LET keys == x.st.shards[1].kernel_map.keys IN
    IF x.st.raised # NoneVal \/ i > Len(keys) THEN x
    ELSE CHOOSE res \in {diff_tests(x1, i + 1, criterion) :
                            x1 \in {diff_test(x, keys[i], criterion)}} : TRUE

\* The loop over run2.kernel_map.items(), recording no test.
find_no_new_tests(x, i) == x

\* TestDifferences.__post_init__: the loop over run2.kernel_map.items(), from
\* its i-th item.
RECURSIVE find_new_tests(_, _)
find_new_tests(x, i) ==
    LET keys == x.st.shards[2].kernel_map.keys IN
    IF x.st.raised # NoneVal \/ i > Len(keys) THEN x
    ELSE IF keys[i] \notin DOMAIN x.st.shards[1].kernel_map.at
    THEN CHOOSE res \in
            {find_new_tests(
                IF s1.raised # NoneVal THEN [x EXCEPT !.st = s1]
                ELSE [x EXCEPT !.st = s1, !.td.new_tests = Append(@, keys[i])],
                i + 1) :
                s1 \in {load_kernels(x.st, 2, keys[i], 1)}} : TRUE
    ELSE find_new_tests(x, i + 1)

\* TestDifferences.__post_init__, its first two statements: the warnings
\* printed to stderr.
mismatch_warnings(run1, run2) ==
    (IF run1.command # run2.command
     THEN <<"WARNING: commands differ between runs">> ELSE <<>>)
    \o (IF run1.exit_code # run1.exit_code
        THEN <<"WARNING: Exit codes do not match">> ELSE <<>>)

\* TestDifferences(run1, run2, show_diffs=, inclusion_criterion=criterion),
\* with __post_init__ run on the store st whose shards 1 and 2 are run1 and
\* run2: the store after it and the TestDifferences (its tests by name).
TestDifferences(st, criterion) ==
    LET run1 == st.shards[1]
        run2 == st.shards[2]
        preamble_diff == join_lines(unified_diff(splitlines(run1.preamble),
                                                 splitlines(run2.preamble),
                                                 run1.name, run2.name))
        td0 == [test_diffs |-> <<>>, new_tests |-> <<>>, removed_tests |-> <<>>,
                total_num_diffs |-> 0, preamble_diff |-> preamble_diff,
                env_diff |-> NoneSeq] IN
    IF run1.env = NoneSeq \/ run2.env = NoneSeq
    THEN [st |-> Raise(st, "AttributeError"), td |-> td0, kernel_diffs |-> <<>>]
    ELSE
    LET env_diff == join_lines(unified_diff(splitlines(run1.env), splitlines(run2.env),
                                            run1.name, run2.name)) IN
    CHOOSE res \in
        {find_new_tests(x1, 1) :
            x1 \in {diff_tests(x0, 1, criterion) :
                        x0 \in {[st |-> st, td |-> [td0 EXCEPT !.env_diff = env_diff],
                                 kernel_diffs |-> <<>>]}}} : TRUE

\* diff_jsons, its last statement: the exit status of the diff subcommand
\* (1 also when the interpreter ends on an uncaught exception).
exit_status_of(x) ==
    IF x.st.raised # NoneVal THEN 1
    ELSE IF Len(x.td.test_diffs) > 0 \/ Len(x.td.preamble_diff) > 0 THEN 1 ELSE 0

\* --------------------------------------------------------- find_preamble
\* The line that replaces a typedef of the index type.
TypedefPlaceholder ==
    <<"typedef", " ", "int", " ", "nvfuser_index_t;", " ", "// NOTE">>

\* line[:8] == "typedef " and line[-17:] == " nvfuser_index_t;"
is_index_typedef(line) ==
    /\ Len(line) >= 3
    /\ line[1] = "typedef" /\ line[2] = " "
    /\ line[Len(line) - 1] = " " /\ line[Len(line)] = "nvfuser_index_t;"

\* The identifiers that the pattern (nvfuser|kernel)_?\d+\b matches.
KernelIds == NvfuserIds \cup {"kernel1", "kernel_2"}

\* re.search(r"void (nvfuser|kernel)_?\d+\b", line) is not None
is_kernel_definition(line) ==
    \E k \in 1..(Len(line) - 2) :
        line[k] = "void" /\ line[k + 1] = " " /\ line[k + 2] \in KernelIds

\* The line right-stripped, a typedef of the index type left as it is.
preamble_line_as_written(raw) == rstrip(raw)

\* The line as find_preamble compares it: right-stripped, a typedef of the
\* index type replaced.
preamble_line(raw) ==
    IF is_index_typedef(rstrip(raw)) THEN TypedefPlaceholder ELSE rstrip(raw)

\* The loop variable i of find_preamble before any line has been read.
Unbound == -1

\* The most files find_preamble looks at.
FilesLimit == 50

\* find_preamble, the loop over the lines of one file, from its k-th line
\* (the line at Python index k - 1): preamble_lines and i when the loop is
\* left.
RECURSIVE scan_lines(_, _, _, _, _)
scan_lines(lines, k, preamble_lines, first, i) ==
    IF k > Len(lines) THEN [preamble_lines |-> preamble_lines, i |-> i]
    ELSE IF is_kernel_definition(preamble_line(lines[k]))
    THEN [preamble_lines |-> preamble_lines, i |-> k - 1]
    ELSE IF first
    THEN scan_lines(lines, k + 1, Append(preamble_lines, preamble_line(lines[k])),
                    first, k - 1)
    ELSE IF k - 1 >= Len(preamble_lines) \/ preamble_lines[k] # preamble_line(lines[k])
    THEN [preamble_lines |-> preamble_lines, i |-> k - 1]
    ELSE scan_lines(lines, k + 1, preamble_lines, first, k - 1)

\* preamble_lines[:i]
Truncated(preamble_lines, i) ==
    SubSeq(preamble_lines, 1, IF i < Len(preamble_lines) THEN i ELSE Len(preamble_lines))

\* What find_preamble leaves in the TestRun.
Preamble(preamble_lines, raised) ==
    [preamble |-> join_lines(preamble_lines),
     preamble_size_lines |-> Len(preamble_lines),
     raised |-> raised]

\* find_preamble, the loop over the files of the cuda directory (in the
\* order os.listdir gave), from its f-th file.
RECURSIVE scan_files(_, _, _, _, _, _)
scan_files(files, f, preamble_lines, first, i, files_processed) ==
    IF f > Len(files) THEN Preamble(preamble_lines, NoneVal)
    ELSE CHOOSE res \in
        {IF r.i = Unbound THEN Preamble(<<>>, "UnboundLocalError")
         ELSE IF Len(Truncated(r.preamble_lines, r.i)) = 0
         THEN Preamble(<<>>, NoneVal)
         ELSE IF files_processed + 1 >= FilesLimit
         THEN Preamble(Truncated(r.preamble_lines, r.i), NoneVal)
         ELSE scan_files(files, f + 1, Truncated(r.preamble_lines, r.i), FALSE, r.i,
                         files_processed + 1) :
            r \in {scan_lines(readlines(files[f]), 1, preamble_lines, first, i)}} : TRUE

\* TestRun.find_preamble on a cuda directory whose files os.listdir gives in
\* the order of files.
find_preamble(files) == scan_files(files, 1, <<>>, TRUE, Unbound, 0)

\* ------------------------------------------- LogParserGBench, LogParserPyTest
\* The characters of a time column, [-+\.\d].
TimeChars == Digits \cup {"-", "+", "."}

\* A line of a benchmark log that none of the base prefixes starts, as its
\* columns (the \S+ runs that \s+ separates); the columns after the first
\* are sequences of characters.
\*   a result line with trailing metadata, one whose iteration column goes on
\*   after its digits, one of another benchmark, the header line of the
\*   table, a line of five columns, and a line with a time that is no number
ColumnLines ==
    {<<"B1", <<"1", "2", ".", "3">>, <<"us">>, <<"4", "5", ".", "6">>, <<"ms">>,
       <<"1", "0", "0">>, <<"/extra">>>>,
     <<"B1", <<"7">>, <<"ns">>, <<"8">>, <<"ns">>, <<"5", "x">>>>,
     <<"B2", <<"-", "1">>, <<"us">>, <<"+", "2">>, <<"us">>, <<"3">>>>,
     <<"Benchmark", <<"T", "i", "m", "e">>, <<"CPU">>, <<"I", "t">>>>,
     <<"B2", <<"1">>, <<"us">>, <<"2">>, <<"us">>>>,
     <<"B2", <<"n", "a", "n">>, <<"us">>, <<"2">>, <<"us">>, <<"3">>>>}

GBenchLines == {[kind |-> "columns", text |-> "", cols |-> c] : c \in ColumnLines}

\* re.match(self.result_re, line) is not None
result_re_matches(cols) ==
    /\ Len(cols) >= 6
    /\ cols[2] # <<>> /\ \A k \in 1..Len(cols[2]) : cols[2][k] \in TimeChars
    /\ cols[3] # <<>>
    /\ cols[4] # <<>> /\ \A k \in 1..Len(cols[4]) : cols[4][k] \in TimeChars
    /\ cols[5] # <<>>
    /\ DigitRun(cols[6]) > 0

\* m.groupdict() of a matching line
result_re_groupdict(cols) ==
    [testname |-> cols[1],
     gputime |-> cols[2],
     gputimeunit |-> cols[3],
     cputime |-> cols[4],
     cputimeunit |-> cols[5],
     iterations |-> SubSeq(cols[6], 1, DigitRun(cols[6]))]

\* BenchmarkResult with the CPU columns taken for the GPU columns.
BenchmarkResult_cpu_first(time, time_unit, cpu, cpu_unit, iterations) ==
    [gpu_time |-> cpu, gpu_time_unit |-> cpu_unit,
     cpu_time |-> time, cpu_time_unit |-> time_unit,
     iterations |-> iterations]

\* BenchmarkResult(time, time_unit, cpu, cpu_unit, iterations)
BenchmarkResult(time, time_unit, cpu, cpu_unit, iterations) ==
    [gpu_time |-> time, gpu_time_unit |-> time_unit,
     cpu_time |-> cpu, cpu_time_unit |-> cpu_unit,
     iterations |-> iterations]

\* LogParserGBench.parse_line
GBench_parse_line(s, line, file) ==
    LET base == parse_line(s, line, file) IN
    IF base.consumed \/ base.s.raised # NoneVal THEN base.s
    ELSE IF line.kind = "columns" /\ result_re_matches(line.cols)
    THEN LET d == result_re_groupdict(line.cols)
             s1 == finalize_test([s EXCEPT !.current_test = d.testname], TRUE) IN
         IF s1.raised # NoneVal THEN s1
         ELSE [s1 EXCEPT !.kernel_map[d.testname].benchmark_result =
                  BenchmarkResult(d.gputime, d.gputimeunit, d.cputime,
                                  d.cputimeunit, d.iterations)]
    ELSE s

\* A line of a pytest -v -s log that none of the base prefixes starts:
\*   itemlist     "Running <n> items in this shard: ..."
\*   test         "<file>.py::<test>"           (text the identifier)
\*   test_passed  "<file>.py::<test> PASSED"    test_failed  "... FAILED"
\*   passed       "PASSED"                      failed       "FAILED"
PyTestLines ==
    {[kind |-> k, text |-> n] : k \in {"test", "test_passed", "test_failed"}, n \in TestNames}
    \cup {[kind |-> k, text |-> ""] : k \in {"itemlist", "passed", "failed"}}

\* wildcard_testname with the rest of the line taken for text of the test.
wildcard_testname_without_status(line) ==
    IF line.kind \in {"test", "test_passed", "test_failed"}
    THEN [testname |-> line.text, line |-> [kind |-> "other", text |-> ""]]
    ELSE [testname |-> NoneVal, line |-> line]

\* What wildcard_testname_re leaves of a line: d["testname"], None when the
\* line does not match, and d["line"], the line itself when it does not.
wildcard_testname(line) ==
    IF line.kind \in {"test", "test_passed", "test_failed"}
    THEN [testname |-> line.text,
          line |-> [kind |-> IF line.kind = "test_passed" THEN "passed"
                             ELSE IF line.kind = "test_failed" THEN "failed"
                             ELSE "other",
                    text |-> ""]]
    ELSE [testname |-> NoneVal, line |-> line]

\* LogParserPyTest.parse_line
PyTest_parse_line(s, line, file) ==
    IF s.all_test_names = NoneVal /\ line.kind = "itemlist"
    THEN [s EXCEPT !.all_test_names = "names"]
    ELSE LET d == wildcard_testname(line)
             s1 == IF d.testname # NoneVal
                   THEN [s EXCEPT !.current_test = d.testname] ELSE s
             s2 == IF d.line.kind = "passed" THEN finalize_test(s1, TRUE)
                   ELSE IF d.line.kind = "failed" /\ s1.current_test # NoneVal
                   THEN finalize_test(s1, FALSE)
                   ELSE s1 IN
         IF s2.raised # NoneVal THEN s2
         ELSE parse_line(s2, d.line, file).s

\* LogParserPyTest.__init__ up to the call of parse: compile_regex also sets
\* all_test_names.
NewPyTestParser ==
    [kernel_map |-> <<>>,
     current_file |-> NoneVal,
     ptxas_info |-> <<>>,
     launch_params_str |-> <<>>,
     current_test |-> NoneVal,
     kernels |-> <<>>,
     raised |-> NoneVal,
     all_test_names |-> NoneVal]

\* --------------------------------------------- CompiledKernel.parse_ptxas
\* ptxas_info is modelled by the numbers it reports, in the order of the
\* text: n, the digits of "(\d+)"; unit, the words after them ("registers",
\* "bytes smem", "bytes cmem", ...); bank, the digits between "[" and "]"
\* of a cmem report (and <<>> elsewhere).
Report(n, unit, bank) == [n |-> n, unit |-> unit, bank |-> bank]

\* find_unique_int(pattern), the pattern being "(\d+) <unit>": the number of
\* the first match, 0 when there is none.
RECURSIVE find_unique_int(_, _)
find_unique_int(unit, ptxas_info) ==
    IF ptxas_info = <<>> THEN 0
    ELSE IF Head(ptxas_info).unit = unit THEN int(Head(ptxas_info).n)
    ELSE find_unique_int(unit, Tail(ptxas_info))

\* [0] * n
RECURSIVE Zeros(_)
Zeros(n) == IF n <= 0 THEN <<>> ELSE <<0>> \o Zeros(n - 1)

\* The loop over re.finditer(r"(\d+) bytes cmem\[(\d+)\]", self.ptxas_info)
RECURSIVE cmem_banks(_, _)
cmem_banks(ptxas_info, cmem_bank_bytes) ==
    IF ptxas_info = <<>> THEN cmem_bank_bytes
    ELSE IF Head(ptxas_info).unit # "bytes cmem"
    THEN cmem_banks(Tail(ptxas_info), cmem_bank_bytes)
    ELSE LET bank == int(Head(ptxas_info).bank)
             padded == IF Len(cmem_bank_bytes) <= bank
                       THEN cmem_bank_bytes \o Zeros(bank + 1 - Len(cmem_bank_bytes))
                       ELSE cmem_bank_bytes IN
         cmem_banks(Tail(ptxas_info),
                    [padded EXCEPT ![bank + 1] = int(Head(ptxas_info).n)])

\* The members of a CompiledKernel that parse_ptxas sets, at their defaults.
\* (mangled_name and arch, which it also sets, are left out.)
PtxasDefaults ==
    [gmem_bytes |-> 0, smem_bytes |-> 0, cmem_bank_bytes |-> NoneSeq,
     registers |-> NoneVal, stack_frame_bytes |-> 0, spill_store_bytes |-> 0,
     spill_load_bytes |-> 0]

\* CompiledKernel.parse_ptxas: the members it leaves.
parse_ptxas(ptxas_info) ==
    IF ptxas_info = NoneSeq THEN PtxasDefaults
    ELSE [stack_frame_bytes |-> find_unique_int("bytes stack frame", ptxas_info),
          spill_store_bytes |-> find_unique_int("bytes spill stores", ptxas_info),
          spill_load_bytes |-> find_unique_int("bytes spill loads", ptxas_info),
          registers |-> find_unique_int("registers", ptxas_info),
          gmem_bytes |-> find_unique_int("bytes gmem", ptxas_info),
          smem_bytes |-> find_unique_int("bytes smem", ptxas_info),
          cmem_bank_bytes |-> cmem_banks(ptxas_info, <<>>)]

\* ------------------------------------------------------------------ state
VARIABLES
    parser,     \* the parser class in use, "LogParser", "LogParserGTest", ...
    pc,         \* "parsing", "done" (parse returned) or "error" (it raised)
    p,          \* the parser object
    nlines,     \* lines of the log read so far
    announced,  \* history: the files announced so far, in order
    runs,       \* history: one entry per "[ RUN      ] " line, in order: the
                \* name, the files announced up to its terminal line, and the
                \* terminal line seen ("open" while none)
    wf,         \* history: the log read so far is well formed
    diag,       \* history: heard, for each announced file, the diagnostic
                \* lines that arrived while it was in flight; ignored, the
                \* number of those that arrived with no kernel in flight;
                \* summary, the number of FAILED lines that arrived with
                \* every test finalized
    jst,        \* the shards being merged: [shards, heap, raised]
    orig,       \* history: jst as it was before the first join
    merged,     \* history: for each shard, the shards merged into it
    consumed,   \* history: the shards that have been a donor
    last,       \* history: the last join call, [r, d, pre], pre the store
                \* before it; <<>> before the first call
    dst,        \* the two runs being compared: [shards, heap, raised], run1
                \* and run2 being shards 1 and 2
    criterion,  \* --kernel-inclusion-criterion
    dpc,        \* "loaded", "done" (diff_jsons ended), "error" (it raised),
                \* "reported" or "hidden" (diff_report ran, with --hide-env)
    td,         \* the TestDifferences
    status,     \* the exit status of the diff subcommand
    stderr,     \* the warnings the diff subcommand has printed to stderr
    loaded,     \* history: dst as it was loaded
    cuda,       \* the files of a cuda directory
    ppc,        \* "loaded", "found" (find_preamble has run), "again" (twice)
    pre,        \* what the last find_preamble left
    pre1,       \* history: what the first find_preamble left
    lst,        \* the run whose kernels parse_dir loads: [shards, heap, raised]
    lcalls,     \* history: the get_kernel calls so far, <<test, number>> each
    first_load, \* history: each kernel as its first get_kernel call left it
    info,       \* the ptxas_info a CompiledKernel is constructed with
    kpc,        \* "new" or "parsed" (parse_ptxas has run)
    usage       \* the members of the kernel that parse_ptxas sets

parseVars == <<parser, pc, p, nlines, announced, runs, wf, diag>>

joinVars == <<jst, orig, merged, consumed, last>>

diffVars == <<dst, criterion, dpc, td, status, stderr, loaded>>

preVars == <<cuda, ppc, pre, pre1>>

loadVars == <<lst, lcalls, first_load>>

ptxasVars == <<info, kpc, usage>>

vars == <<parser, pc, p, nlines, announced, runs, wf, diag, jst, orig, merged, consumed, last,
          dst, criterion, dpc, td, status, stderr, loaded, cuda, ppc, pre, pre1,
          lst, lcalls, first_load, info, kpc, usage>>

\* The lines a log of this parser's runner is drawn from.
Lines ==
    IF parser = "LogParserGTest" THEN BaseLines \cup GTestLines
    ELSE IF parser = "LogParserGBench" THEN BaseLines \cup GBenchLines
    ELSE IF parser = "LogParserPyTest" THEN BaseLines \cup PyTestLines
    ELSE BaseLines

\* The parser class's parse_line (method dispatch).
Dispatch(s, line, file) ==
    IF parser = "LogParserGTest" THEN GTest_parse_line(s, line, file)
    ELSE IF parser = "LogParserGBench" THEN GBench_parse_line(s, line, file)
    ELSE IF parser = "LogParserPyTest" THEN PyTest_parse_line(s, line, file)
    ELSE parse_line(s, line, file).s

RunOpen == runs # <<>> /\ runs[Len(runs)].outcome = "open"

\* The files announced that no entry of runs holds.
RECURSIVE NumHeld(_)
NumHeld(rs) == IF rs = <<>> THEN 0 ELSE Len(Head(rs).kernels) + NumHeld(Tail(rs))

\* The history of runs after a line of a pytest log: a test identifier
\* opens an entry (or renames the open one), and a status, on the same line
\* or as a later bare line, closes it with the files announced since the
\* entry closed before.
PyTestRunsAfter(line, file) ==
    LET closed == IF RunOpen THEN SubSeq(runs, 1, Len(runs) - 1) ELSE runs
        since == SubSeq(announced, NumHeld(closed) + 1, Len(announced))
        entry(name, outcome) ==
            Append(closed, [name |-> name,
                            kernels |-> IF outcome = "open" THEN <<>> ELSE since,
                            outcome |-> outcome]) IN
    IF line.kind = "test" THEN entry(line.text, "open")
    ELSE IF line.kind = "test_passed" THEN entry(line.text, "OK")
    ELSE IF line.kind = "test_failed" THEN entry(line.text, "FAILED")
    ELSE IF line.kind = "passed" /\ RunOpen THEN entry(runs[Len(runs)].name, "OK")
    ELSE IF line.kind = "failed" /\ RunOpen THEN entry(runs[Len(runs)].name, "FAILED")
    ELSE runs

\* The history of runs after a line.  A benchmark has no line that opens
\* it: its result line makes the entry, with the files announced since the
\* result line before.
RunsAfter(line, file) ==
    IF parser = "LogParserPyTest" THEN PyTestRunsAfter(line, file)
    ELSE IF line.kind = "columns" /\ result_re_matches(line.cols)
    THEN Append(runs, [name |-> line.cols[1],
                       kernels |-> SubSeq(announced, NumHeld(runs) + 1, Len(announced)),
                       outcome |-> "OK",
                       cols |-> line.cols])
    ELSE IF line.kind = "run"
    THEN Append(runs, [name |-> line.text, kernels |-> <<>>, outcome |-> "open"])
    ELSE IF ~RunOpen THEN runs
    ELSE IF line.kind = "cu"
    THEN [runs EXCEPT ![Len(runs)].kernels = Append(@, file)]
    ELSE IF line.kind = "ok" THEN [runs EXCEPT ![Len(runs)].outcome = "OK"]
    ELSE IF line.kind = "failed" THEN [runs EXCEPT ![Len(runs)].outcome = "FAILED"]
    ELSE runs

\* A line that keeps a log well formed: a test name has one RUN line, a RUN
\* line comes only when the previous test has had its terminal line, an OK
\* line (a bare PASSED line of pytest) ends an open test, and a
\* launch-parameter line has the shape the tool prints.  ("[  FAILED  ] " lines with no test open are the
\* failure summary at the end of a log.)
KeepsWellFormed(line) ==
    /\ line.kind = "run" =>
          /\ ~RunOpen
          /\ \A i \in 1..Len(runs) : runs[i].name # line.text
    /\ line.kind \in {"ok", "passed"} => RunOpen
    /\ line.kind = "launch" => line.text # BadShape

\* The history of diagnostic lines after a line.
DiagAfter(line) ==
    IF line.kind = "cu"
    THEN [diag EXCEPT !.heard = Append(@, [ptxas |-> <<>>, launch |-> <<>>])]
    ELSE IF line.kind \in {"ptxas", "launch"}
    THEN IF p.current_file = NoneVal
         THEN [diag EXCEPT !.ignored = @ + 1]
         ELSE IF line.kind = "ptxas"
         THEN [diag EXCEPT !.heard[Len(announced)].ptxas = Append(@, line.text)]
         ELSE [diag EXCEPT !.heard[Len(announced)].launch = Append(@, line.text)]
    ELSE IF line.kind = "failed" /\ p.current_test = NoneVal
    THEN [diag EXCEPT !.summary = @ + 1]
    ELSE diag

\* LogParser.parse, one iteration of its loop: read the next line.
ParseLine ==
    /\ pc = "parsing"
    /\ nlines < MaxLines
    /\ \E line \in Lines :
          LET file == CuNames[Len(announced) + 1]
              s == Dispatch(p, line, file) IN
          /\ p' = s
          /\ pc' = IF s.raised # NoneVal THEN "error" ELSE "parsing"
          /\ announced' = IF line.kind = "cu" THEN Append(announced, file) ELSE announced
          /\ runs' = RunsAfter(line, file)
          /\ wf' = (wf /\ KeepsWellFormed(line))
          /\ diag' = DiagAfter(line)
    /\ nlines' = nlines + 1
    /\ UNCHANGED <<parser, joinVars, diffVars, preVars, loadVars, ptxasVars>>

\* LogParser.parse, after its loop: the end of the log, self.finalize().
EndOfInput ==
    /\ pc = "parsing"
    /\ p' = finalize(p)
    /\ pc' = "done"
    /\ UNCHANGED <<parser, nlines, announced, runs, wf, diag, joinVars, diffVars, preVars, loadVars, ptxasVars>>

\* No shard is loaded while a log is parsed.
JoinIdle ==
    /\ jst = [shards |-> <<>>, heap |-> <<>>, raised |-> NoneVal]
    /\ orig = jst
    /\ merged = <<>>
    /\ consumed = {}
    /\ last = <<>>

\* No TestDifferences is computed while a log is parsed or shards are merged.
NoDifferences ==
    [test_diffs |-> <<>>, new_tests |-> <<>>, removed_tests |-> <<>>,
     total_num_diffs |-> 0, preamble_diff |-> <<>>, env_diff |-> NoneSeq]

DiffIdle ==
    /\ dst = [shards |-> <<>>, heap |-> <<>>, raised |-> NoneVal]
    /\ criterion = NoneVal
    /\ dpc = "idle"
    /\ td = NoDifferences
    /\ status = 0
    /\ stderr = <<>>
    /\ loaded = dst

\* No preamble is looked for while a log is parsed, shards are merged or
\* runs are compared.
PreambleIdle ==
    /\ cuda = <<>>
    /\ ppc = "idle"
    /\ pre = Preamble(<<>>, NoneVal)
    /\ pre1 = pre

\* No kernel is loaded by parse_dir meanwhile.
LoadIdle ==
    /\ lst = [shards |-> <<>>, heap |-> <<>>, raised |-> NoneVal]
    /\ lcalls = <<>>
    /\ first_load = <<>>

\* No kernel is constructed from a ptxas block meanwhile.
PtxasIdle ==
    /\ info = NoneSeq
    /\ kpc = "idle"
    /\ usage = PtxasDefaults

\* No log is parsed while shards are merged or runs compared.
ParseIdle ==
    /\ parser = NoneVal
    /\ pc = "idle"
    /\ p = NewParser
    /\ nlines = 0
    /\ announced = <<>>
    /\ runs = <<>>
    /\ wf = TRUE
    /\ diag = [heard |-> <<>>, ignored |-> 0, summary |-> 0]

InitParse(cls) ==
    /\ parser = cls
    /\ pc = "parsing"
    /\ p = IF cls = "LogParserPyTest" THEN NewPyTestParser ELSE NewParser
    /\ nlines = 0
    /\ announced = <<>>
    /\ runs = <<>>
    /\ wf = TRUE
    /\ diag = [heard |-> <<>>, ignored |-> 0, summary |-> 0]
    /\ JoinIdle
    /\ DiffIdle
    /\ PreambleIdle
    /\ LoadIdle
    /\ PtxasIdle

NextParse == ParseLine \/ EndOfInput

\* A run of LogParserGTest over a log.
SpecGTest == InitParse("LogParserGTest") /\ [][NextParse]_vars

\* A run of LogParser (the ungrouped parser) over a log.
SpecUngrouped == InitParse("LogParser") /\ [][NextParse]_vars

\* A run of LogParserGBench over a log.
SpecGBench == InitParse("LogParserGBench") /\ [][NextParse]_vars

\* A run of LogParserPyTest over a log.
SpecPyTest == InitParse("LogParserPyTest") /\ [][NextParse]_vars

\* ------------------------------------------------------- merging shards
\* The shards handed to join: three TestRun objects, as TestRun.from_json
\* loads them from three files.
ShardIds == {1, 2, 3}

\* The kernel maps a shard is loaded with: its tests in key order, each with
\* the files of its kernels and its pass flag.  Every shard process numbers
\* its kernel files from 1, so the shards' file names coincide.
KernelMaps ==
    {<<>>,
     <<[name |-> UngroupedName, files |-> <<"k1.cu", "k2.cu">>, passed |-> TRUE]>>,
     <<[name |-> UngroupedName, files |-> <<"k1.cu">>, passed |-> FALSE]>>,
     <<[name |-> "T1", files |-> <<"k1.cu">>, passed |-> TRUE]>>,
     <<[name |-> "T1", files |-> <<"k1.cu">>, passed |-> FALSE],
       [name |-> UngroupedName, files |-> <<"k2.cu">>, passed |-> TRUE]>>,
     <<[name |-> "T2", files |-> <<>>, passed |-> TRUE]>>}

\* What may set one shard apart from the others: a member of the run
\* directory that differs, or an optional member that is absent.
Members ==
    {"git", "preamble", "preamble_size_lines", "command_type",
     "nvcc_version", "env", "no_nvcc_version", "no_env", "no_gpu_names"}

Deviations == {[shard |-> 0, member |-> "none"]}
              \cup [shard : ShardIds, member : Members]

\* The exit codes of the three shards.
ExitCodes == {<<0, 0, 0>>, <<0, 1, 2>>}

\* TestRun.__post_init__ / TestRun.from_json: shard i as loaded.
TestRun(i, km, dev, ec) ==
    LET odd(m) == dev.shard = i /\ dev.member = m IN
    [git |-> IF odd("git") THEN "rev2" ELSE "rev1",
     preamble |-> IF odd("preamble") THEN <<"line2">> ELSE <<"line1">>,
     preamble_size_lines |-> IF odd("preamble_size_lines") THEN 2 ELSE 1,
     command_type |-> IF odd("command_type") THEN "GOOGLETEST" ELSE "UNKNOWN",
     nvcc_version |-> IF odd("no_nvcc_version") THEN NoneSeq
                      ELSE IF odd("nvcc_version") THEN <<"nvcc2">> ELSE <<"nvcc1">>,
     env |-> IF odd("no_env") THEN NoneSeq
             ELSE IF odd("env") THEN <<"env2">> ELSE <<"env1">>,
     gpu_names |-> IF odd("no_gpu_names") THEN NoneSeq ELSE <<"gpu">>,
     command |-> <<"cmd">>,
     exit_code |-> ec,
     name |-> <<"shard">>,
     files |-> <<>>,
     kernel_map |->
        [keys |-> [k \in 1..Len(km) |-> km[k].name],
         at |-> [n \in {km[k].name : k \in 1..Len(km)} |-> <<i, n>>]]]

\* The CompiledTest objects of the shards as loaded, by identity.
LoadedHeap(kms) ==
    [id \in UNION {{<<i, kms[i][k].name>> : k \in 1..Len(kms[i])} : i \in DOMAIN kms} |->
        LET t == CHOOSE t \in {kms[id[1]][k] : k \in 1..Len(kms[id[1]])} : t.name = id[2] IN
        [name |-> t.name,
         kernels |-> [k \in 1..Len(t.files) |-> CompiledKernel(t.files[k], <<>>, <<>>)],
         passed |-> t.passed,
         benchmark_result |-> NoneVal]]

InitJoin ==
    /\ \E kms \in [ShardIds -> KernelMaps], dev \in Deviations, ecs \in ExitCodes :
          jst = [shards |-> [i \in ShardIds |-> TestRun(i, kms[i], dev, ecs[i])],
                 heap |-> LoadedHeap(kms),
                 raised |-> NoneVal]
    /\ orig = jst
    /\ merged = [i \in ShardIds |-> {i}]
    /\ consumed = {}
    /\ last = <<>>
    /\ ParseIdle
    /\ DiffIdle
    /\ PreambleIdle
    /\ LoadIdle
    /\ PtxasIdle

\* A call r.join(d).  As in join_jsons, a shard is merged once: a shard that
\* has been a donor is not used again, and nothing is called after a raise.
Join ==
    /\ jst.raised = NoneVal
    /\ \E r \in ShardIds \ consumed, d \in ShardIds \ consumed :
          /\ r # d
          /\ jst' = join(jst, r, d)
          /\ last' = [r |-> r, d |-> d, pre |-> jst]
          /\ consumed' = consumed \cup {d}
          /\ merged' = IF jst'.raised = NoneVal
                       THEN [merged EXCEPT ![r] = @ \cup merged[d]]
                       ELSE merged
    /\ UNCHANGED <<orig, parseVars, diffVars, preVars, loadVars, ptxasVars>>

NextJoin == Join

\* Shards merged by calls of TestRun.join.
SpecJoin == InitJoin /\ [][NextJoin]_vars

\* --------------------------------------------------------- comparing runs
\* The kernel source files of the run directories.  A file is a header line,
\* the typedef of the index type, the kernel definition (numbered by the
\* compiler), a body line, the closing brace of the kernel and the closing
\* brace of the namespace.
CuFile(header, type, ordinal, body) ==
    <<header, "\n",
      "typedef", " ", type, " ", "nvfuser_index_t;", "\n",
      "void", " ", ordinal, "(", ")", " ", "{", "\n",
      " ", body, "\n",
      "}", "\n",
      "}", "\n">>

\* The mangled symbol of the kernel numbered by the digits ordinal: _ZN, the
\* length-prefixed scope name (_k<ordinal>), the length-prefixed kernel name
\* (n<ordinal>), and the parameter types.
MangledSymbol(ordinal) ==
    <<"_ZN", <<"3", "4">>[Len(ordinal)], "_", "k">> \o ordinal
        \o <<<<"2", "3">>[Len(ordinal)], "n">> \o ordinal
        \o <<"E", "N", "S", "_">>

\* The PTX files: the entry symbol and one instruction with a callseq
\* comment.
PtxFile(ordinal, instruction, comment) ==
    <<".entry", " ">> \o MangledSymbol(ordinal)
        \o <<"(", "\n", instruction, " ", "//", comment, "\n">>

\* The kernels a run directory may hold, by what sets them apart from the
\* first: nothing; the kernel's number and the comment of its PTX; the
\* source; the PTX; no PTX file; the source, with no PTX file.
KernelVariants ==
    {"base", "renumbered", "source", "ptx", "no_ptx", "source_no_ptx"}

\* Kernel source files of other shapes: no line at all; or the lines of the
\* first kernel up to its body, ended by the brace of the kernel alone,
\* an indented brace, a brace on the line of the last statement, or a brace
\* followed by a comment.
FileEndings ==
    [no_namespace |-> <<"}", "\n">>,
     indented_brace |-> <<"}", "\n", " ", "}", "\n">>,
     inline_brace |-> <<" ", "c", " ", "}", "\n">>,
     commented_brace |-> <<"}", "\n", "}", " ", "// namespace", "\n">>]

OddVariants == {"empty"} \cup DOMAIN FileEndings

OddCuFile(header, type, variant) ==
    IF variant = "empty" THEN <<>>
    ELSE <<header, "\n",
           "typedef", " ", type, " ", "nvfuser_index_t;", "\n",
           "void", " ", "nvfuser_1", "(", ")", " ", "{", "\n",
           " ", "a", "\n">> \o FileEndings[variant]

KernelFiles(header, type, variant) ==
    [cu |-> IF variant \in OddVariants THEN OddCuFile(header, type, variant)
            ELSE CuFile(header, type,
                   IF variant = "renumbered" THEN "nvfuser_2" ELSE "nvfuser_1",
                   IF variant \in {"source", "source_no_ptx"} THEN "b" ELSE "a"),
     ptx |-> IF variant \in {"no_ptx", "source_no_ptx"} THEN NoneSeq
             ELSE IF variant = "renumbered" THEN PtxFile(<<"1", "2">>, "ld", "c2")
             ELSE IF variant = "ptx" THEN PtxFile(<<"1">>, "st", "c1")
             ELSE PtxFile(<<"1">>, "ld", "c1")]

\* The tests of a run and the number of kernels of each, in key order.
Layouts ==
    {t1 \o t2 :
        t1 \in {<<>>} \cup {<<[name |-> "T1", n |-> n]>> : n \in 0..MaxKernels},
        t2 \in {<<>>, <<[name |-> "T2", n |-> 1]>>}}

RECURSIVE NumKernels(_)
NumKernels(layout) ==
    IF layout = <<>> THEN 0 ELSE Head(layout).n + NumKernels(Tail(layout))

\* The kernel map of a layout: the j-th kernel of the run is file CuNames[j].
RECURSIVE LayoutMap(_, _)
LayoutMap(layout, first) ==
    IF layout = <<>> THEN <<>>
    ELSE <<[name |-> Head(layout).name,
            files |-> [k \in 1..Head(layout).n |-> CuNames[first + k - 1]],
            passed |-> TRUE]>>
         \o LayoutMap(Tail(layout), first + Head(layout).n)

\* TestRun.__post_init__ / TestRun.from_json: run i of the comparison, its
\* directory holding the files of variants[j] for its j-th kernel, all with
\* one header line and one index type.
LoadedRun(i, name, layout, variants, header, type, env) ==
    LET found == find_preamble([j \in 1..NumKernels(layout) |->
                                   KernelFiles(header, type, variants[j]).cu]) IN
    [git |-> "rev1",
     preamble |-> found.preamble,
     preamble_size_lines |-> found.preamble_size_lines,
     command_type |-> "GOOGLETEST",
     nvcc_version |-> <<"nvcc1">>,
     env |-> env,
     gpu_names |-> <<"gpu">>,
     command |-> <<"cmd">>,
     exit_code |-> 0,
     name |-> name,
     files |-> [f \in {CuNames[j] : j \in 1..NumKernels(layout)} |->
                  KernelFiles(header, type,
                              variants[CHOOSE j \in 1..NumKernels(layout) : CuNames[j] = f])],
     kernel_map |->
        [keys |-> [k \in 1..Len(layout) |-> layout[k].name],
         at |-> [n \in {layout[k].name : k \in 1..Len(layout)} |-> <<i, n>>]]]

\* The tests of run1: none, T1 with one or two kernels, or T1 and T2.
Layouts1 == {l \in Layouts : l = <<>> \/ (l[1].name = "T1" /\ l[1].n > 0)}

\* The kernels of run1 are the first kernel, all with or all without PTX;
\* the first kernel of run2 is any variant, its second differs from the
\* first in the source or in nothing, its third in nothing.
Variants1(layout) ==
    {[j \in 1..NumKernels(layout) |-> v] : v \in {"base", "no_ptx"}}

Variants2(layout) ==
    {vs \in [1..NumKernels(layout) -> KernelVariants] :
        /\ \A j \in 2..NumKernels(layout) : vs[j] \in {"base", "source"}
        /\ \A j \in 3..NumKernels(layout) : vs[j] = "base"}

\* The env members of the two run directories (None: no env file).
EnvPairs ==
    {<<<<"A=1">>, <<"A=1">>>>, <<<<"A=1">>, <<"A=2">>>>, <<NoneSeq, NoneSeq>>}

\* The name of run2, the header and the index type of its files, its
\* command and its exit code: those of run1, another name and command,
\* another name, index type and exit code, or another name, header, command
\* and exit code.
Others ==
    {[name |-> <<"run1">>, header |-> "hdr1", type |-> "int",
      command |-> <<"cmd">>, exit_code |-> 0],
     [name |-> <<"run2">>, header |-> "hdr1", type |-> "int",
      command |-> <<"cmd2">>, exit_code |-> 0],
     [name |-> <<"run2">>, header |-> "hdr1", type |-> "int64_t",
      command |-> <<"cmd">>, exit_code |-> 1],
     [name |-> <<"run2">>, header |-> "hdr2", type |-> "int",
      command |-> <<"cmd2">>, exit_code |-> 1]}

Criteria == {"mismatched_cuda_or_ptx", "mismatched_ptx", "all"}

InitDiff ==
    /\ \E l1 \in Layouts1, l2 \in Layouts, other \in Others, envs \in EnvPairs :
       \E v1 \in Variants1(l1), v2 \in Variants2(l2) :
          dst = [shards |-> <<LoadedRun(1, <<"run1">>, l1, v1, "hdr1", "int", envs[1]),
                              [LoadedRun(2, other.name, l2, v2, other.header,
                                         other.type, envs[2])
                                  EXCEPT !.command = other.command,
                                         !.exit_code = other.exit_code]>>,
                 heap |-> LoadedHeap(<<LayoutMap(l1, 1), LayoutMap(l2, 1)>>),
                 raised |-> NoneVal]
    /\ criterion \in Criteria
    /\ dpc = "loaded"
    /\ td = NoDifferences
    /\ status = 0
    /\ stderr = <<>>
    /\ loaded = dst
    /\ ParseIdle
    /\ JoinIdle
    /\ PreambleIdle
    /\ LoadIdle
    /\ PtxasIdle

\* diff_jsons: compute the TestDifferences and exit.
DiffJsons ==
    /\ dpc = "loaded"
    /\ \E x \in {TestDifferences(dst, criterion)} :
          /\ dst' = x.st
          /\ td' = x.td
          /\ status' = exit_status_of(x)
          /\ stderr' = mismatch_warnings(dst.shards[1], dst.shards[2])
          /\ dpc' = IF x.st.raised # NoneVal THEN "error" ELSE "done"
    /\ UNCHANGED <<criterion, loaded, parseVars, joinVars, preVars, loadVars, ptxasVars>>

\* TestDifferences.hide_env on the store of the two runs
hide_env(st) ==
    [st EXCEPT !.shards[1].env = NoneSeq,
               !.shards[2].env = NoneSeq,
               !.shards[1].nvcc_version = NoneSeq,
               !.shards[2].nvcc_version = NoneSeq]

\* diff_report on the TestDifferences that diff_jsons wrote, with or
\* without --hide-env: what generate_html renders is the runs of dst and
\* the members of td.
DiffReport ==
    /\ dpc = "done"
    /\ \E hide \in BOOLEAN :
          /\ dst' = IF hide THEN hide_env(dst) ELSE dst
          /\ dpc' = IF hide THEN "hidden" ELSE "reported"
    /\ UNCHANGED <<criterion, td, status, stderr, loaded, parseVars, joinVars, preVars, loadVars, ptxasVars>>

NextDiff == DiffJsons \/ DiffReport

\* The diff subcommand on two loaded runs, and the report subcommand on its
\* result.
SpecDiff == InitDiff /\ [][NextDiff]_vars

\* ------------------------------------------------- detecting the preamble
\* The text of a file with the given lines, each ended by a newline.
RECURSIVE FileOf(_)
FileOf(lines) ==
    IF lines = <<>> THEN <<>> ELSE Head(lines) \o <<"\n">> \o FileOf(Tail(lines))

TypedefLine(type) == <<"typedef", " ", type, " ", "nvfuser_index_t;">>

KernelLine(id) == <<"void", " ", id, "(", ")", " ", "{">>

\* The files a cuda directory may hold: kernels with one header and either
\* index type, a kernel with another second line, files with no kernel
\* definition, an empty file, a file that starts with its kernel, and a file
\* with trailing blanks.
PreambleFiles ==
    {FileOf(<<<<"hdr1">>, TypedefLine("int"), KernelLine("nvfuser_1"), <<" ", "a">>,
              <<"}">>, <<"}">>>>),
     FileOf(<<<<"hdr1">>, TypedefLine("int64_t") \o <<" ">>, KernelLine("nvfuser_2"),
              <<" ", "b">>>>),
     FileOf(<<<<"hdr1">>, <<"hdr2">>, KernelLine("kernel1")>>),
     FileOf(<<<<"hdr1">>, TypedefLine("int")>>),
     FileOf(<<<<"hdr1">>>>),
     FileOf(<<>>),
     FileOf(<<KernelLine("nvfuser_1")>>),
     FileOf(<<<<"hdr1", " ">>, TypedefLine("int"), <<"hdr2">>>>)}

\* The most files in the cuda directory.
MaxFiles == 3

Directories == UNION {[1..n -> PreambleFiles] : n \in 0..MaxFiles}

\* The orders in which os.listdir may give n files.
Orders(n) == {o \in [1..n -> 1..n] : \A a, b \in 1..n : o[a] = o[b] => a = b}

InitPreamble ==
    /\ cuda \in Directories
    /\ ppc = "loaded"
    /\ pre = Preamble(<<>>, NoneVal)
    /\ pre1 = pre
    /\ ParseIdle
    /\ JoinIdle
    /\ DiffIdle
    /\ LoadIdle
    /\ PtxasIdle

\* A call of find_preamble, os.listdir giving the files in some order.
FindPreamble ==
    /\ ppc \in {"loaded", "found"}
    /\ \E o \in Orders(Len(cuda)) :
          pre' = find_preamble([k \in 1..Len(cuda) |-> cuda[o[k]]])
    /\ pre1' = IF ppc = "loaded" THEN pre' ELSE pre1
    /\ ppc' = IF ppc = "loaded" THEN "found" ELSE "again"
    /\ UNCHANGED <<cuda, parseVars, joinVars, diffVars, loadVars, ptxasVars>>

NextPreamble == FindPreamble

\* find_preamble run on a cuda directory, and run again.
SpecPreamble == InitPreamble /\ [][NextPreamble]_vars

\* ------------------------------------------------------- loading kernels
\* The most get_kernel calls made on a run.
MaxCalls == 3

\* The kernels of the run that parse_dir loads: as those of run2, or the
\* last of another shape.
VariantsLoad(layout) ==
    Variants2(layout) \cup
    {vs \in [1..NumKernels(layout) -> {"base"} \cup OddVariants] :
        /\ NumKernels(layout) >= 2
        /\ \A j \in 1..(NumKernels(layout) - 1) : vs[j] = "base"}

InitLoad ==
    /\ \E l \in Layouts1 \ {<<>>}, type \in {"int", "int64_t"} :
       \E v \in VariantsLoad(l) :
          lst = [shards |-> <<LoadedRun(1, <<"run1">>, l, v, "hdr1", type, <<"A=1">>)>>,
                 heap |-> LoadedHeap(<<LayoutMap(l, 1)>>),
                 raised |-> NoneVal]
    /\ lcalls = <<>>
    /\ first_load = <<>>
    /\ ParseIdle
    /\ JoinIdle
    /\ DiffIdle
    /\ PreambleIdle
    /\ PtxasIdle

\* tr.get_kernel(test_name, kernel_number, strip_preamble=True), as parse_dir
\* calls it (kernel_number 1-based here).
GetKernel ==
    /\ lst.raised = NoneVal
    /\ Len(lcalls) < MaxCalls
    /\ \E test_name \in DOMAIN lst.shards[1].kernel_map.at :
       \E kernel_number \in 1..Len(TestOfRun(lst, 1, test_name).kernels) :
       \E st \in {get_kernel(lst, 1, test_name, kernel_number, TRUE)} :
          /\ lst' = st
          /\ lcalls' = Append(lcalls, <<test_name, kernel_number>>)
          /\ first_load' =
                IF <<test_name, kernel_number>> \in DOMAIN first_load THEN first_load
                ELSE (<<test_name, kernel_number>>
                        :> TestOfRun(st, 1, test_name).kernels[kernel_number]) @@ first_load
    /\ UNCHANGED <<parseVars, joinVars, diffVars, preVars, ptxasVars>>

NextLoad == GetKernel

\* Kernels of a run loaded by get_kernel, some more than once.
SpecLoad == InitLoad /\ [][NextLoad]_vars

\* ------------------------------------------------- parsing a ptxas block
\* The most constant-memory banks one block reports.
MaxBanks == 2

\* The numbers of a ptxas block, as the text has them.
RegisterCounts == {<<"2", "0", "3">>, <<"3", "2">>}

SmemSizes == {<<"1", "6">>, <<"0">>}

CmemSizes == {<<"4", "7", "2">>, <<"8">>}

Banks == {<<"0">>, <<"1">>, <<"2">>, <<"3">>}

\* "ptxas         .     0 bytes stack frame, 0 bytes spill stores, 0 bytes
\* spill loads"
StackLine ==
    <<Report(<<"0">>, "bytes stack frame", <<>>),
      Report(<<"0">>, "bytes spill stores", <<>>),
      Report(<<"0">>, "bytes spill loads", <<>>)>>

\* The cmem reports of a "Used" line: up to MaxBanks banks, in the order of
\* their numbers.
CmemReports ==
    {q \in UNION {[1..n -> {Report(c, "bytes cmem", b) : c \in CmemSizes, b \in Banks}] :
                    n \in 0..MaxBanks} :
        \A k \in 1..(Len(q) - 1) : int(q[k].bank) < int(q[k + 1].bank)}

\* "ptxas info    : Used 203 registers, 16 bytes smem, 472 bytes cmem[0], 8
\* bytes cmem[2]": the registers, the shared memory (left out when there is
\* none) and the constant-memory banks in use.
UsedLines ==
    {r \o sm \o cm :
        r \in {<<>>} \cup {<<Report(n, "registers", <<>>)>> : n \in RegisterCounts},
        sm \in {<<>>} \cup {<<Report(n, "bytes smem", <<>>)>> : n \in SmemSizes},
        cm \in CmemReports}

\* The ptxas_info of a kernel: None, or a block of the compiler.
PtxasBlocks == {NoneSeq} \cup {StackLine \o used : used \in UsedLines}

InitPtxas ==
    /\ info \in PtxasBlocks
    /\ kpc = "new"
    /\ usage = PtxasDefaults
    /\ ParseIdle
    /\ JoinIdle
    /\ DiffIdle
    /\ PreambleIdle
    /\ LoadIdle

\* CompiledKernel.__post_init__: self.parse_ptxas()
ParsePtxas ==
    /\ kpc = "new"
    /\ usage' = parse_ptxas(info)
    /\ kpc' = "parsed"
    /\ UNCHANGED <<info, parseVars, joinVars, diffVars, preVars, loadVars>>

NextPtxas == ParsePtxas

\* A CompiledKernel constructed with a ptxas block.
SpecPtxas == InitPtxas /\ [][NextPtxas]_vars

\* ----------------------------------------------------- claims: the parsers
Filenames(ks) == [i \in 1..Len(ks) |-> ks[i].filename]

Range(f) == {f[i] : i \in DOMAIN f}

IsSuffix(a, b) ==
    /\ Len(a) <= Len(b)
    /\ SubSeq(b, Len(b) - Len(a) + 1, Len(b)) = a

NamedTests(km) == DOMAIN km \ {UngroupedName}

AllRunsTerminated == \A i \in 1..Len(runs) : runs[i].outcome # "open"

\* C1: when LogParserGTest has parsed a well-formed log (one RUN line per
\* test name, each RUN line followed by an OK or FAILED line before the next
\* RUN line, any number of kernel announcements in between, none included),
\* the kernel map holds as many tests as the log has RUN lines.
C1_TestCountEqualsRunCount ==
    (pc = "done" /\ wf /\ AllRunsTerminated)
        => Cardinality(NamedTests(p.kernel_map)) = Len(runs)

\* C2: in a well-formed GoogleTest log the parse does not raise, and the
\* files announced between the RUN line of a test and its terminal line are
\* in that test's kernel list, in announcement order (they end the list),
\* and in the kernel list of no other test.
C2_KernelsAttributedToTheirTest ==
    wf =>
      /\ p.raised = NoneVal
      /\ \A i \in 1..Len(runs) :
            (runs[i].outcome # "open" /\ runs[i].kernels # <<>>) =>
               /\ runs[i].name \in DOMAIN p.kernel_map
               /\ IsSuffix(runs[i].kernels,
                           Filenames(p.kernel_map[runs[i].name].kernels))
               /\ \A n \in DOMAIN p.kernel_map \ {runs[i].name} :
                     Range(Filenames(p.kernel_map[n].kernels))
                        \cap Range(runs[i].kernels) = {}

\* C2, its case: a parsed well-formed log of two tests, one passed and one
\* failed, with kernels announced in each.
C2_Witness ==
    /\ pc = "done" /\ wf /\ Len(runs) = 2
    /\ \A i \in 1..2 : runs[i].kernels # <<>> /\ runs[i].outcome # "open"
    /\ \E i \in 1..2 : runs[i].outcome = "FAILED"

\* C3: after the parse, a test whose RUN line is followed by an OK line is in the kernel map
\* with passed = TRUE, and a test whose RUN line is followed by a FAILED line
\* is in the kernel map with passed = FALSE.
C3_PassFlagFollowsTerminalLine ==
    (pc = "done" /\ wf) =>
        \A i \in 1..Len(runs) :
            runs[i].outcome # "open" =>
               /\ runs[i].name \in DOMAIN p.kernel_map
               /\ p.kernel_map[runs[i].name].passed = (runs[i].outcome = "OK")

\* C4: after LogParser has parsed a log, the kernel list of the test
\* "Ungrouped Kernels" names every announced file, in announcement order.
C4_UngroupedHoldsEveryAnnouncedKernel ==
    (pc = "done" /\ parser = "LogParser") =>
        Filenames(IF UngroupedName \in DOMAIN p.kernel_map
                  THEN p.kernel_map[UngroupedName].kernels
                  ELSE <<>>) = announced

\* ------------------------------------------ claims: the parsers, continued
\* The kernels a parser holds: those of the tests of its kernel map and
\* those of its pending list.
KernelsHeld ==
    UNION {Range(p.kernel_map[n].kernels) : n \in DOMAIN p.kernel_map}
        \cup Range(p.kernels)

\* The place of a file among the files announced.
AnnouncedAs(filename) == CHOOSE j \in 1..Len(announced) : announced[j] = filename

\* C24: no parser stops on a status line that arrives with no test in
\* flight (a GoogleTest OK line, a pytest bare PASSED line): the parse does
\* not end with the AssertionError of finalize_test.
C24_StatusLineWithoutTestIsIgnored == p.raised # "AssertionError"

\* The launch parameters of every kernel held are those of the first launch
\* line that arrived while the kernel was in flight.
FirstLaunchLineWins ==
    \A k \in KernelsHeld :
        LET lines == diag.heard[AnnouncedAs(k.filename)].launch IN
        k.launch_params = IF lines = <<>> THEN NoneVal ELSE lines[1]

\* C25: the launch parameters of a kernel are those of its first launch
\* line, and no launch line, disagreeing with the first or of another
\* shape, makes the parse fail.
C25_FirstLaunchLineWinsAndParseGoesOn ==
    /\ FirstLaunchLineWins
    /\ p.raised # "AttributeError"

\* The diagnostic lines of a log.
DiagnosticLines == {line \in BaseLines : line.kind \in {"ptxas", "launch"}}

\* C26: a ptxas or launch line that arrives while no kernel is in flight
\* leaves the parser as it is (kernel map, pending list, test name, both
\* buffers, no exception), and the buffers of every kernel held are the
\* diagnostic lines that arrived while that kernel was in flight.
C26_DiagnosticLineWithoutKernelIsIgnored ==
    /\ (pc = "parsing" /\ p.current_file = NoneVal) =>
          \A line \in DiagnosticLines : Dispatch(p, line, CuNames[Len(announced) + 1]) = p
    /\ \A k \in KernelsHeld :
          /\ k.ptxas_info = diag.heard[AnnouncedAs(k.filename)].ptxas
          /\ k.launch_params_str = diag.heard[AnnouncedAs(k.filename)].launch

\* C26, its case: diagnostic lines arrived with no kernel in flight, before
\* a kernel that a test of the kernel map holds.
C26_Witness ==
    /\ pc = "done"
    /\ diag.ignored >= 2
    /\ \E n \in DOMAIN p.kernel_map : p.kernel_map[n].kernels # <<>>

\* Every test of the kernel map has the name it is stored under.
NamesEqualKeys == \A n \in DOMAIN p.kernel_map : p.kernel_map[n].name = n

\* C27: every key of the kernel map is a non-empty string, and every test
\* has the name it is stored under.
C27_KeysAreNonEmptyNames == NamesEqualKeys /\ "" \notin DOMAIN p.kernel_map

\* The result lines read whose benchmark no later result line names.
LastResults == {i \in 1..Len(runs) : \A j \in (i + 1)..Len(runs) : runs[j].name # runs[i].name}

\* C30: in a benchmark log whose launch lines have the printed shape the
\* parse does not raise, and every result line leaves, under the name of
\* its first column, a passed test with the five column values (the
\* iteration count being the digits its column starts with) and with the
\* files announced since the result line before, in order.
C30_ResultLineFinalizesBenchmark ==
    wf =>
      /\ p.raised = NoneVal
      /\ \A i \in LastResults :
            /\ runs[i].name \in DOMAIN p.kernel_map
            /\ LET t == p.kernel_map[runs[i].name]
                   c == runs[i].cols IN
               /\ t.name = runs[i].name
               /\ t.passed
               /\ Filenames(t.kernels) = runs[i].kernels
               /\ t.benchmark_result.gpu_time = c[2]
               /\ t.benchmark_result.gpu_time_unit = c[3]
               /\ t.benchmark_result.cpu_time = c[4]
               /\ t.benchmark_result.cpu_time_unit = c[5]
               /\ t.benchmark_result.iterations = SubSeq(c[6], 1, DigitRun(c[6]))

\* C30, its case: a parsed benchmark log with two result lines, of two
\* benchmarks, the first with two kernels, one with trailing metadata.
C30_Witness ==
    /\ pc = "done" /\ wf /\ Len(runs) = 2
    /\ runs[1].name # runs[2].name
    /\ Len(runs[1].kernels) = 2
    /\ \E i \in 1..2 : Len(runs[i].cols) > 6


\* The finalized tests of a log whose name no later entry of runs has.
LastFinalized ==
    {i \in 1..Len(runs) :
        /\ runs[i].outcome # "open"
        /\ \A j \in (i + 1)..Len(runs) : runs[j].name # runs[i].name}

\* C32: in a pytest log (launch lines of the printed shape, no bare PASSED
\* line without a test) the parse does not raise, and a test identifier
\* followed by PASSED or FAILED, on its line or as a later bare line, leaves
\* under its name a test with passed true or false, its kernels being the
\* files announced since the finalization before, in order.
C32_PyTestStatusFinalizesTest ==
    wf =>
      /\ p.raised = NoneVal
      /\ \A i \in LastFinalized :
            /\ runs[i].name \in DOMAIN p.kernel_map
            /\ p.kernel_map[runs[i].name].name = runs[i].name
            /\ p.kernel_map[runs[i].name].passed = (runs[i].outcome = "OK")
            /\ Filenames(p.kernel_map[runs[i].name].kernels) = runs[i].kernels

\* C32, its case: a parsed pytest log of two tests with kernels, one passed
\* and one failed, one with its status on the line of its identifier and one
\* with a bare status line (which the entries of runs do not tell apart: the
\* second test has two kernels, announced after its identifier).
C32_Witness ==
    /\ pc = "done" /\ wf /\ Len(runs) = 2 /\ nlines = 6
    /\ runs[1].name # runs[2].name
    /\ runs[1].outcome = "OK" /\ runs[2].outcome = "FAILED"
    /\ Len(runs[1].kernels) = 1 /\ Len(runs[2].kernels) = 2

\* C34: a "[  FAILED  ] " line that arrives when every test has been
\* finalized (no test in flight) leaves the parser as it is: the kernel map
\* gets no entry and none of its entries changes.
C34_FailureSummaryChangesNothing ==
    [][diag'.summary > diag.summary => p' = p]_vars

\* C34, its case: a parsed log with a failed test in the kernel map, a
\* kernel announced after it (in flight when the summary arrives), and two
\* lines of failure summary.
C34_Witness ==
    /\ pc = "done"
    /\ diag.summary >= 2
    /\ \E n \in DOMAIN p.kernel_map : ~p.kernel_map[n].passed
    /\ p.current_file # NoneVal

\* C35: the buffers of every kernel held, and those of the kernel in
\* flight (while the parse has not raised), are the diagnostic lines that
\* arrived while that kernel was in flight, in order (a newly announced
\* kernel has none), and with no kernel in flight the buffers are empty.
C35_DiagnosticLinesGoToTheKernelInFlight ==
    /\ \A k \in KernelsHeld :
          /\ k.ptxas_info = diag.heard[AnnouncedAs(k.filename)].ptxas
          /\ k.launch_params_str = diag.heard[AnnouncedAs(k.filename)].launch
    /\ (p.current_file # NoneVal /\ p.raised = NoneVal) =>
          /\ p.current_file = announced[Len(announced)]
          /\ p.ptxas_info = diag.heard[Len(announced)].ptxas
          /\ p.launch_params_str = diag.heard[Len(announced)].launch
    /\ p.current_file = NoneVal => p.ptxas_info = <<>> /\ p.launch_params_str = <<>>

\* C35, its case: a kernel held with a ptxas line and a launch line, the
\* kernel announced after it held with no line, and a third in flight with
\* one line.
C35_Witness ==
    /\ p.current_file # NoneVal /\ Len(announced) = 3
    /\ Len(p.ptxas_info) = 1
    /\ \E k1, k2 \in KernelsHeld :
          /\ k1.filename = announced[1] /\ k2.filename = announced[2]
          /\ Len(k1.ptxas_info) = 1 /\ Len(k1.launch_params_str) = 1
          /\ k2.ptxas_info = <<>> /\ k2.launch_params_str = <<>>

\* The kernel lists of the parser: those of the tests of its kernel map,
\* and its pending list while the log is read (at the end of the log
\* finalize stores the pending list itself as the list of "Ungrouped
\* Kernels").
RECURSIVE ListsOf(_)
ListsOf(S) ==
    IF S = {} THEN IF pc = "done" THEN <<>> ELSE p.kernels
    ELSE LET n == CHOOSE n \in S : TRUE IN
         p.kernel_map[n].kernels \o ListsOf(S \ {n})

\* C36: no two KernelRecords held come from one announcement, and no
\* KernelRecord is held twice, in one list or in two (the pending list, the
\* lists of the tests).
C36_OneRecordPerAnnouncement ==
    LET all == ListsOf(DOMAIN p.kernel_map) IN
    /\ \A i, j \in 1..Len(all) : all[i].filename = all[j].filename => i = j
    /\ \A i \in 1..Len(all) : \E j \in 1..Len(announced) : announced[j] = all[i].filename

\* C36, its case: a test of the kernel map with two kernels, a kernel in
\* the pending list and a kernel in flight.
C36_Witness ==
    /\ pc = "parsing"
    /\ p.kernels # <<>>
    /\ p.current_file # NoneVal
    /\ \E n \in DOMAIN p.kernel_map : Len(p.kernel_map[n].kernels) = 2

\* ------------------------------------------------- claims: merging shards
Called == last # <<>>

\* The last call's receiver and donor as they were before the call.
PreSelf == last.pre.shards[last.r]

PreOther == last.pre.shards[last.d]

\* The CompiledTest that shard i holds under name n in store st.
TestOf(st, i, n) == st.heap[st.shards[i].kernel_map.at[n]]

KeysOf(st, i) == DOMAIN st.shards[i].kernel_map.at

SameTest(t, u) == t.name = u.name /\ t.kernels = u.kernels /\ t.passed = u.passed

\* The kernels of the "Ungrouped Kernels" bucket of shard i in store st.
Ungrouped(st, i) ==
    IF UngroupedName \in KeysOf(st, i) THEN TestOf(st, i, UngroupedName).kernels ELSE <<>>

RECURSIVE SeqToBag(_)
SeqToBag(q) == IF q = <<>> THEN EmptyBag ELSE SetToBag({Head(q)}) (+) SeqToBag(Tail(q))

RECURSIVE BagOfBuckets(_, _)
BagOfBuckets(st, S) ==
    IF S = {} THEN EmptyBag
    ELSE LET i == CHOOSE i \in S : TRUE IN
         SeqToBag(Ungrouped(st, i)) (+) BagOfBuckets(st, S \ {i})

\* C7: join raises when the receiver and the donor differ in git revision,
\* in preamble text, in preamble line count or in command type.
C7_JoinRaisesOnMismatch ==
    Called =>
        ((\/ PreSelf.git # PreOther.git
          \/ PreSelf.preamble # PreOther.preamble
          \/ PreSelf.preamble_size_lines # PreOther.preamble_size_lines
          \/ PreSelf.command_type # PreOther.command_type)
            => jst.raised = "AssertionError")

\* C7, its case: a join of two shards that differ in command type alone.
C7_Witness ==
    /\ Called
    /\ PreSelf.command_type # PreOther.command_type
    /\ PreSelf.git = PreOther.git
    /\ PreSelf.preamble = PreOther.preamble
    /\ PreSelf.preamble_size_lines = PreOther.preamble_size_lines
    /\ jst.raised = "AssertionError"

\* A named test that the receiver and the donor both held before the call.
CommonNamedTest ==
    (KeysOf(last.pre, last.r) \cap KeysOf(last.pre, last.d)) \ {UngroupedName} # {}

\* C8: join raises when a test name other than "Ungrouped Kernels" is a key
\* of both kernel maps; and while every join has succeeded, each named test
\* a shard was loaded with is still in its map, the same object with the
\* same kernels and pass flag.
C8_NamedTestsNeverOverwritten ==
    /\ (Called /\ CommonNamedTest) => jst.raised # NoneVal
    /\ jst.raised = NoneVal =>
          \A i \in DOMAIN jst.shards : \A n \in KeysOf(orig, i) \ {UngroupedName} :
             /\ n \in KeysOf(jst, i)
             /\ jst.shards[i].kernel_map.at[n] = orig.shards[i].kernel_map.at[n]
             /\ TestOf(jst, i, n) = TestOf(orig, i, n)

\* C8, its case: a join of two shards that agree on all that has to match
\* and both hold the test T1; it raises at the assert on the name.
C8_Witness ==
    /\ Called /\ CommonNamedTest
    /\ join_preconditions(PreSelf, PreOther)
    /\ jst.raised = "AssertionError"
    /\ jst.shards[last.r].command # PreSelf.command

\* C9: while every join has succeeded, the "Ungrouped Kernels" bucket of a
\* shard that has not been merged away holds, as a multiset, the buckets the
\* shards merged into it were loaded with: the order and the grouping of the
\* joins that formed it do not matter.
C9_UngroupedBucketIsOrderIndependent ==
    jst.raised = NoneVal =>
        \A i \in DOMAIN jst.shards : i \notin consumed =>
            SeqToBag(Ungrouped(jst, i)) = BagOfBuckets(orig, merged[i])

\* C9, its case: the three shards merged into shard 1, each loaded with a
\* bucket, the buckets of shards 2 and 3 different, and shard 3's kernels
\* ahead of shard 2's in the result (shard 3 joined first, or joined onto
\* shard 2).
C9_Witness ==
    /\ jst.raised = NoneVal
    /\ DOMAIN jst.shards = ShardIds
    /\ merged[1] = ShardIds
    /\ \A i \in ShardIds : Ungrouped(orig, i) # <<>>
    /\ Ungrouped(orig, 2) # Ungrouped(orig, 3)
    /\ Ungrouped(jst, 1) = Ungrouped(orig, 1) \o Ungrouped(orig, 3) \o Ungrouped(orig, 2)

\* C10: after a successful join the receiver's kernel map has the union of
\* the two key sets; a named test is the test its source run held (the
\* receiver's, else the donor's); and "Ungrouped Kernels", when both held
\* it, has the receiver's kernels followed by the donor's and passed =
\* receiver passed and donor passed.
C10_JoinMergesKernelMaps ==
    (Called /\ jst.raised = NoneVal) =>
        /\ KeysOf(jst, last.r) = KeysOf(last.pre, last.r) \cup KeysOf(last.pre, last.d)
        /\ \A n \in KeysOf(jst, last.r) \ {UngroupedName} :
              IF n \in KeysOf(last.pre, last.r)
              THEN SameTest(TestOf(jst, last.r, n), TestOf(last.pre, last.r, n))
              ELSE SameTest(TestOf(jst, last.r, n), TestOf(last.pre, last.d, n))
        /\ UngroupedName \in KeysOf(last.pre, last.r) \cap KeysOf(last.pre, last.d) =>
              LET mine == TestOf(last.pre, last.r, UngroupedName)
                  theirs == TestOf(last.pre, last.d, UngroupedName)
                  now == TestOf(jst, last.r, UngroupedName) IN
              /\ now.kernels = mine.kernels \o theirs.kernels
              /\ now.passed = (mine.passed /\ theirs.passed)
              /\ now.name = UngroupedName

\* C10, its case: a successful join of a receiver holding T1 and a passed
\* bucket with a donor holding a failed bucket of other kernels.
C10_Witness ==
    /\ Called /\ jst.raised = NoneVal
    /\ "T1" \in KeysOf(last.pre, last.r)
    /\ UngroupedName \in KeysOf(last.pre, last.r) \cap KeysOf(last.pre, last.d)
    /\ TestOf(last.pre, last.r, UngroupedName).passed
    /\ ~TestOf(last.pre, last.d, UngroupedName).passed
    /\ TestOf(last.pre, last.r, UngroupedName).kernels
          # TestOf(last.pre, last.d, UngroupedName).kernels

\* C11: a join of two shards that agree on git revision, preamble (text and
\* line count) and command type and hold no named test in common completes
\* without an exception, also when an optional member (env, nvcc_version,
\* gpu_names) was absent from a run directory.
C11_JoinFailsOnlyOnPreconditionViolation ==
    (Called /\ join_preconditions(PreSelf, PreOther) /\ ~CommonNamedTest)
        => jst.raised = NoneVal

RECURSIVE SumOfExitCodes(_)
SumOfExitCodes(S) ==
    IF S = {} THEN 0
    ELSE LET i == CHOOSE i \in S : TRUE IN
         orig.shards[i].exit_code + SumOfExitCodes(S \ {i})

\* C12: while every join has succeeded, the exit code of a shard that has
\* not been merged away is the sum of the exit codes the shards merged into
\* it were loaded with; the codes being non-negative, it is non-zero exactly
\* when one of them was non-zero.
C12_ExitCodeIsSumOfShards ==
    jst.raised = NoneVal =>
        \A i \in DOMAIN jst.shards : i \notin consumed =>
            /\ jst.shards[i].exit_code = SumOfExitCodes(merged[i])
            /\ (jst.shards[i].exit_code # 0
                  <=> \E j \in merged[i] : orig.shards[j].exit_code # 0)

\* C12, its case: the three shards, with exit codes 0, 1 and 2, merged into
\* one that has exit code 3.
C12_Witness ==
    /\ jst.raised = NoneVal
    /\ \E i \in DOMAIN jst.shards :
          /\ merged[i] = ShardIds
          /\ \E j \in ShardIds : orig.shards[j].exit_code = 2
          /\ \E j \in ShardIds : orig.shards[j].exit_code = 1
          /\ jst.shards[i].exit_code = 3

\* The donors of the joins so far that were joined as loaded (never a
\* receiver before).
PlainDonors == {d \in consumed : merged[d] = {d}}

\* Every plain donor's kernel map is what it was loaded with: the same
\* names, and for each the same name, kernels and pass flag.
DonorsUnmodified ==
    \A d \in PlainDonors :
        /\ jst.shards[d].kernel_map.keys = orig.shards[d].kernel_map.keys
        /\ \A n \in KeysOf(orig, d) : SameTest(TestOf(jst, d, n), TestOf(orig, d, n))

\* No CompiledTest (and so no list of kernels) is held by the kernel maps of
\* two shards.
NothingShared ==
    \A i \in DOMAIN jst.shards : \A j \in DOMAIN jst.shards :
        i # j => Range(jst.shards[i].kernel_map.at) \cap Range(jst.shards[j].kernel_map.at) = {}

\* C13: while every join has succeeded, no donor has been modified (its
\* kernel map has the names, kernel lists and pass flags it had when it was
\* joined) and no list of kernels is shared between two shards.
C13_JoinLeavesDonorsAlone ==
    jst.raised = NoneVal => (DonorsUnmodified /\ NothingShared)

\* C13, the part on the donors' state alone.
JoinNeverModifiesDonor == jst.raised = NoneVal => DonorsUnmodified

\* The receiver of the last call is as it was before the call: its members
\* and the tests of its kernel map.
ReceiverAsBefore ==
    /\ jst.shards[last.r] = PreSelf
    /\ \A n \in KeysOf(last.pre, last.r) :
          TestOf(jst, last.r, n) = TestOf(last.pre, last.r, n)

\* C37: a join that raises leaves the receiver as it was before the call:
\* command, exit code, env, nvcc_version, gpu_names and kernel map.
C37_FailedJoinLeavesReceiverAsItWas ==
    (Called /\ jst.raised # NoneVal) => ReceiverAsBefore

\* A join that raises on its preconditions (git, preamble, command type)
\* leaves the receiver as it was.
PreconditionFailureLeavesReceiver ==
    (Called /\ ~join_preconditions(PreSelf, PreOther)) =>
        jst.raised = "AssertionError" /\ ReceiverAsBefore

\* --------------------------------------------------- claims: comparing runs
\* The tests present in both runs.
CommonTests ==
    {n \in DOMAIN dst.shards[1].kernel_map.at : n \in DOMAIN dst.shards[2].kernel_map.at}

Kernels1(n) == TestOfRun(dst, 1, n).kernels

Kernels2(n) == TestOfRun(dst, 2, n).kernels

\* The k-th kernels of test n, loaded, differ in their source lines, or both
\* have PTX and differ in their sanitized PTX lines.
PairDiffers(n, k) ==
    \/ splitlines(Kernels1(n)[k].code) # splitlines(Kernels2(n)[k].code)
    \/ /\ Kernels1(n)[k].ptx # NoneSeq
       /\ Kernels2(n)[k].ptx # NoneSeq
       /\ sanitize_ptx_lines(splitlines(Kernels1(n)[k].ptx))
            # sanitize_ptx_lines(splitlines(Kernels2(n)[k].ptx))

\* Some test present in both runs has differing kernel counts or a compared
\* kernel pair that differs.
RealDifference ==
    \E n \in CommonTests :
        \/ Len(Kernels1(n)) # Len(Kernels2(n))
        \/ \E k \in 1..Len(Kernels1(n)) : k <= Len(Kernels2(n)) /\ PairDiffers(n, k)

PreambleDiffers ==
    splitlines(dst.shards[1].preamble) # splitlines(dst.shards[2].preamble)

\* C5: when the diff subcommand ends, its exit status is 1 exactly when some
\* test present in both runs has a real difference (differing kernel counts,
\* or a compared kernel pair whose source or PTX differs) or the preambles
\* differ, whichever inclusion criterion was selected.
C5_ExitStatusFollowsRealDifferences ==
    dpc = "done" => (status = 1 <=> (RealDifference \/ PreambleDiffers))

\* The two runs were loaded from one directory: every member is the same, and
\* so are the tests of their kernel maps.
IdenticalRuns ==
    LET a == loaded.shards[1]
        b == loaded.shards[2] IN
    /\ \A f \in DOMAIN a \ {"kernel_map"} : a[f] = b[f]
    /\ a.kernel_map.keys = b.kernel_map.keys
    /\ \A n \in DOMAIN a.kernel_map.at :
          loaded.heap[a.kernel_map.at[n]] = loaded.heap[b.kernel_map.at[n]]

\* C6: comparing a run with an identical run under the default criterion
\* mismatched_cuda_or_ptx ends without an exception and with empty
\* test_diffs, new_tests and removed_tests, total_num_diffs = 0, and empty
\* preamble and env diffs.
C6_IdenticalRunsHaveNoDifferences ==
    (dpc \in {"done", "error"} /\ IdenticalRuns /\ criterion = "mismatched_cuda_or_ptx")
        => /\ dpc = "done"
           /\ td.test_diffs = <<>>
           /\ td.new_tests = <<>>
           /\ td.removed_tests = <<>>
           /\ td.total_num_diffs = 0
           /\ td.preamble_diff = <<>>
           /\ td.env_diff = <<>>

\* The same, for runs whose directory has an env file.
IdenticalRunsWithEnvHaveNoDifferences ==
    loaded.shards[1].env # NoneSeq => C6_IdenticalRunsHaveNoDifferences

\* The tests present in both runs whose kernel counts differ.
MismatchedTests == {n \in CommonTests : Len(Kernels1(n)) # Len(Kernels2(n))}

\* The entries of test_diffs for test n.
EntriesOf(n) == {k \in 1..Len(td.test_diffs) : td.test_diffs[k].testname = n}

\* The number of KernelDiffs in the entries test_diffs[k..] of the tests
\* in S.
RECURSIVE KernelDiffsOf(_, _)
KernelDiffsOf(k, S) ==
    IF k > Len(td.test_diffs) THEN 0
    ELSE (IF td.test_diffs[k].testname \in S /\ ~td.test_diffs[k].kernel_diffs.is_none
          THEN Len(td.test_diffs[k].kernel_diffs.v) ELSE 0)
         + KernelDiffsOf(k + 1, S)

\* C14: when the comparison ends, a test present in both runs with differing
\* kernel counts has exactly one entry in test_diffs, with kernel_diffs
\* null, and total_num_diffs counts the KernelDiffs of the other tests only.
C14_CountMismatchGivesOneNullTestDiff ==
    dpc = "done" =>
        /\ \A n \in MismatchedTests :
              /\ Cardinality(EntriesOf(n)) = 1
              /\ \A k \in EntriesOf(n) : td.test_diffs[k].kernel_diffs.is_none
        /\ td.total_num_diffs = KernelDiffsOf(1, CommonTests \ MismatchedTests)

\* The compared kernel pairs: the first kernels, up to the smaller count, of
\* the tests present in both runs.
ComparedPairs ==
    {pr \in CommonTests \X (1..MaxKernels) :
        pr[2] <= Len(Kernels1(pr[1])) /\ pr[2] <= Len(Kernels2(pr[1]))}

SourceDiffers(n, k) ==
    splitlines(Kernels1(n)[k].code) # splitlines(Kernels2(n)[k].code)

PtxDiffers(n, k) ==
    /\ Kernels1(n)[k].ptx # NoneSeq
    /\ Kernels2(n)[k].ptx # NoneSeq
    /\ sanitize_ptx_lines(splitlines(Kernels1(n)[k].ptx))
          # sanitize_ptx_lines(splitlines(Kernels2(n)[k].ptx))

\* Some TestDiff of test n holds a KernelDiff numbered k.
Included(n, k) ==
    \E e \in EntriesOf(n) :
        /\ ~td.test_diffs[e].kernel_diffs.is_none
        /\ \E j \in 1..Len(td.test_diffs[e].kernel_diffs.v) :
              td.test_diffs[e].kernel_diffs.v[j].kernel_num = k

\* C15: when the comparison ends, a compared kernel pair has a KernelDiff
\* exactly when the criterion admits it: always under all; when its source
\* differs or its PTX diff exists and is non-empty under
\* mismatched_cuda_or_ptx; when its PTX diff exists and is non-empty under
\* mismatched_ptx.
C15_InclusionFollowsCriterion ==
    dpc = "done" =>
        \A pr \in ComparedPairs :
            Included(pr[1], pr[2]) <=>
                CASE criterion = "all" -> TRUE
                  [] criterion = "mismatched_cuda_or_ptx" ->
                        SourceDiffers(pr[1], pr[2]) \/ PtxDiffers(pr[1], pr[2])
                  [] criterion = "mismatched_ptx" -> PtxDiffers(pr[1], pr[2])

\* C15, its case: under mismatched_ptx, a pair that differs in the source
\* alone is left out while a pair whose PTX differs is included.
C15_Witness ==
    /\ dpc = "done"
    /\ criterion = "mismatched_ptx"
    /\ \E pr \in ComparedPairs :
          /\ SourceDiffers(pr[1], pr[2]) /\ ~PtxDiffers(pr[1], pr[2])
          /\ ~Included(pr[1], pr[2])
    /\ \E pr \in ComparedPairs : PtxDiffers(pr[1], pr[2]) /\ Included(pr[1], pr[2])

TestNames1 == DOMAIN dst.shards[1].kernel_map.at

TestNames2 == DOMAIN dst.shards[2].kernel_map.at

\* The names of a list of tests are the set S, each once.
ListsExactly(names, S) == Range(names) = S /\ Len(names) = Cardinality(S)

\* C16: when the comparison ends, new_tests holds exactly the tests named in
\* run2's kernel map and not in run1's, removed_tests exactly those named in
\* run1's and not in run2's, every test named in test_diffs is in both maps,
\* and no name is in two of the three lists.
C16_TestsClassifiedByName ==
    dpc = "done" =>
        /\ ListsExactly(td.new_tests, TestNames2 \ TestNames1)
        /\ ListsExactly(td.removed_tests, TestNames1 \ TestNames2)
        /\ \A k \in 1..Len(td.test_diffs) :
              td.test_diffs[k].testname \in TestNames1 \cap TestNames2
        /\ Range(td.new_tests) \cap Range(td.removed_tests) = {}
        /\ \A k \in 1..Len(td.test_diffs) :
              td.test_diffs[k].testname \notin Range(td.new_tests) \cup Range(td.removed_tests)

\* C16, its case: run1 has T1, run2 has T1 with its kernel modified and T2;
\* one TestDiff for T1 with one KernelDiff, T2 in new_tests, one difference,
\* exit status 1.
C16_Witness ==
    /\ dpc = "done"
    /\ criterion = "mismatched_cuda_or_ptx"
    /\ TestNames1 = {"T1"} /\ TestNames2 = {"T1", "T2"}
    /\ Len(Kernels1("T1")) = 1 /\ Len(Kernels2("T1")) = 1
    /\ td.new_tests = <<"T2">>
    /\ td.removed_tests = <<>>
    /\ Len(td.test_diffs) = 1
    /\ Included("T1", 1)
    /\ td.total_num_diffs = 1
    /\ status = 1

\* The text of a kernel file with the type named on a typedef line blanked.
Untyped(cu) ==
    [k \in 1..Len(cu) |->
        IF k > 2 /\ cu[k - 2] = "typedef" /\ cu[k - 1] = " " THEN "?" ELSE cu[k]]

\* The kernel files of the two runs differ in the type named on their
\* typedef line and in nothing else.
FilesDifferInIndexTypeOnly ==
    LET f1 == loaded.shards[1].files
        f2 == loaded.shards[2].files IN
    /\ DOMAIN f1 = DOMAIN f2
    /\ \A f \in DOMAIN f1 : Untyped(f1[f].cu) = Untyped(f2[f].cu)
    /\ \E f \in DOMAIN f1 : f1[f].cu # f2[f].cu

\* C19: two runs whose kernel files differ only in the type named on the
\* typedef of nvfuser_index_t have the same preamble text and preamble line
\* count, and their preamble diff is empty.
C19_IndexTypeDoesNotChangePreamble ==
    (dpc = "done" /\ FilesDifferInIndexTypeOnly) =>
        /\ loaded.shards[1].preamble = loaded.shards[2].preamble
        /\ loaded.shards[1].preamble_size_lines = loaded.shards[2].preamble_size_lines
        /\ td.preamble_diff = <<>>

\* C19, its case: two runs of three kernels, compiled with int and with
\* int64_t, whose preamble holds the typedef line.
C19_Witness ==
    /\ dpc = "done"
    /\ FilesDifferInIndexTypeOnly
    /\ Cardinality(DOMAIN loaded.shards[1].files) = 3
    /\ loaded.shards[1].preamble_size_lines = 2
    /\ Kernels1("T1")[1].index_type = "int"
    /\ Kernels2("T1")[1].index_type = "int64_t"
    /\ td.preamble_diff = <<>>

\* The text of a kernel file with the digits of its nvfuser_<digits>
\* identifiers blanked.
Unnumbered(cu) ==
    [k \in 1..Len(cu) |-> IF cu[k] \in NvfuserIds THEN "nvfuser_?" ELSE cu[k]]

\* The source file of the k-th kernel of test n in run r.
SourceOf(r, n, k) == loaded.shards[r].files[TestOfRun(dst, r, n).kernels[k].filename].cu

\* The KernelDiffs recorded for the k-th kernel pair of test n.
KernelDiffsFor(n, k) ==
    {kd \in UNION {Range(td.test_diffs[e].kernel_diffs.v) : e \in EntriesOf(n)} :
        kd.kernel_num = k}

\* The source files of the pair differ in the digits of their
\* nvfuser_<digits> identifiers and in nothing else.
RenumberedOnly(n, k) ==
    /\ SourceOf(1, n, k) # SourceOf(2, n, k)
    /\ Unnumbered(SourceOf(1, n, k)) = Unnumbered(SourceOf(2, n, k))

\* C21: when the comparison ends, a compared pair whose source files differ
\* only in the digits of their nvfuser_<digits> identifiers, loaded with the
\* same preamble line count, has equal code, and its source diff is empty.
C21_KernelNumbersAreNormalized ==
    dpc = "done" =>
        \A pr \in ComparedPairs :
            (/\ RenumberedOnly(pr[1], pr[2])
             /\ loaded.shards[1].preamble_size_lines = loaded.shards[2].preamble_size_lines)
                => /\ Kernels1(pr[1])[pr[2]].code = Kernels2(pr[1])[pr[2]].code
                   /\ \A kd \in KernelDiffsFor(pr[1], pr[2]) : kd.diff = <<>>

\* C21, its case: nvfuser_1 against nvfuser_2, both loaded, the pair
\* recorded under the criterion all with an empty source diff.
C21_Witness ==
    /\ dpc = "done"
    /\ criterion = "all"
    /\ \E pr \in ComparedPairs :
          /\ RenumberedOnly(pr[1], pr[2])
          /\ Len(Kernels1(pr[1])[pr[2]].code) > 0
          /\ \E kd \in KernelDiffsFor(pr[1], pr[2]) : kd.diff = <<>>

\* The PTX of the pair differs in the kernel ordinal of the mangled symbol
\* (in its names and their length prefixes) and in the text of the comments,
\* and in nothing else.
OrdinalAndCommentsOnly(n, k) ==
    /\ Kernels1(n)[k].ptx # NoneSeq
    /\ Kernels2(n)[k].ptx # NoneSeq
    /\ \E o1 \in {<<"1">>, <<"1", "2">>}, o2 \in {<<"1">>, <<"1", "2">>},
          c1 \in {"c1", "c2"}, c2 \in {"c1", "c2"}, instruction \in {"ld", "st"} :
          /\ o1 # o2 /\ c1 # c2
          /\ Kernels1(n)[k].ptx = rstrip(PtxFile(o1, instruction, c1))
          /\ Kernels2(n)[k].ptx = rstrip(PtxFile(o2, instruction, c2))

\* C23: when the comparison ends, a compared pair whose PTX differs only in
\* the kernel ordinal of the mangled symbol and in the text of trailing
\* comments has equal sanitized PTX lines, and its PTX diff is empty.
C23_PtxOrdinalAndCommentsAreNormalized ==
    dpc = "done" =>
        \A pr \in ComparedPairs :
            OrdinalAndCommentsOnly(pr[1], pr[2]) =>
                /\ sanitize_ptx_lines(splitlines(Kernels1(pr[1])[pr[2]].ptx))
                      = sanitize_ptx_lines(splitlines(Kernels2(pr[1])[pr[2]].ptx))
                /\ \A kd \in KernelDiffsFor(pr[1], pr[2]) : kd.ptx_diff = <<>>

\* C23, its case: the symbols of kernels 1 and 12, with comments c1 and c2,
\* both sanitized to the placeholder names and no comment.
C23_Witness ==
    /\ dpc = "done"
    /\ criterion = "all"
    /\ \E pr \in ComparedPairs :
          /\ OrdinalAndCommentsOnly(pr[1], pr[2])
          /\ sanitize_ptx_lines(splitlines(Kernels2(pr[1])[pr[2]].ptx))
                = <<<<".entry", " ", "_ZN", "11kernelscope", "6kernel", "E", "N", "S", "_", "(">>,
                    <<"ld", " ">>>>
          /\ \E kd \in KernelDiffsFor(pr[1], pr[2]) : kd.ptx_diff = <<>>

\* C28: after hide_env nothing that comes from the env text or the
\* toolchain version of either run is left in what the report renders:
\* the four members are None, and env_diff is what it is for two runs with
\* the same env text, empty.
C28_HideEnvLeavesNothingOfEnv ==
    dpc = "hidden" =>
        /\ \A i \in {1, 2} : /\ dst.shards[i].env = NoneSeq
                             /\ dst.shards[i].nvcc_version = NoneSeq
        /\ td.env_diff = <<>>

\* hide_env does set the four members of the runs to None.
HideEnvClearsRunMembers ==
    dpc = "hidden" =>
        \A i \in {1, 2} : /\ dst.shards[i].env = NoneSeq
                           /\ dst.shards[i].nvcc_version = NoneSeq

\* The warning of the command strings is printed when they differ.
CommandWarningPrinted ==
    (dpc \in {"done", "error"} /\ loaded.shards[1].command # loaded.shards[2].command)
        => \E k \in 1..Len(stderr) : stderr[k] = "WARNING: commands differ between runs"

\* C31: when the commands of the two runs differ, and likewise when their
\* exit codes differ, the warning of that mismatch is printed, and the diff
\* is still computed (for runs that have their env member).
C31_MismatchesAreWarnedAbout ==
    (dpc \in {"done", "error"} /\ loaded.shards[1].env # NoneSeq
                               /\ loaded.shards[2].env # NoneSeq) =>
        /\ dpc = "done"
        /\ CommandWarningPrinted
        /\ loaded.shards[1].exit_code # loaded.shards[2].exit_code
              => \E k \in 1..Len(stderr) : stderr[k] = "WARNING: Exit codes do not match"

\* Every KernelDiff of the TestDifferences.
AllKernelDiffs ==
    UNION {Range(td.test_diffs[e].kernel_diffs.v) :
              e \in {e \in 1..Len(td.test_diffs) : ~td.test_diffs[e].kernel_diffs.is_none}}

\* The number of lines of a diff text that start with the sign (the file
\* headers start with "---" and "+++").
SignedLines(diff, sign) ==
    Cardinality({k \in 1..Len(splitlines(diff)) :
                    /\ splitlines(diff)[k] # <<>>
                    /\ splitlines(diff)[k][1] = sign})

\* C33: in every KernelDiff, new_lines and removed_lines are the numbers of
\* lines of the source diff that add and that remove a line, and
\* new_ptx_lines and removed_ptx_lines those of the PTX diff, whatever the
\* lines hold.
C33_DiffCountsAreAddedAndRemovedLines ==
    dpc = "done" =>
        \A kd \in AllKernelDiffs :
            /\ kd.new_lines = SignedLines(kd.diff, "+")
            /\ kd.removed_lines = SignedLines(kd.diff, "-")
            /\ kd.ptx_diff # NoneSeq =>
                  /\ kd.new_ptx_lines = SignedLines(kd.ptx_diff, "+")
                  /\ kd.removed_ptx_lines = SignedLines(kd.ptx_diff, "-")

\* The source diffs of the kernel files, whose changed lines are indented,
\* are counted as C33 says.
IndentedLinesAreCounted ==
    dpc = "done" =>
        \A kd \in AllKernelDiffs :
            /\ kd.new_lines = SignedLines(kd.diff, "+")
            /\ kd.removed_lines = SignedLines(kd.diff, "-")

\* C38: when the TestDifferences is computed, total_num_diffs is the
\* number of KernelDiffs over all the entries of test_diffs, and every entry
\* whose kernel_diffs is not null holds a KernelDiff whose kernel_num is
\* between 1 and the kernel count of the test (in either run).
C38_TotalCountsEveryKernelDiff ==
    dpc = "done" =>
        /\ td.total_num_diffs = KernelDiffsOf(1, TestNames1)
        /\ \A e \in 1..Len(td.test_diffs) :
              ~td.test_diffs[e].kernel_diffs.is_none =>
                 \E j \in 1..Len(td.test_diffs[e].kernel_diffs.v) :
                    LET kd == td.test_diffs[e].kernel_diffs.v[j] IN
                    /\ kd.testname = td.test_diffs[e].testname
                    /\ kd.kernel_num >= 1
                    /\ kd.kernel_num <= Len(Kernels1(kd.testname))
                    /\ kd.kernel_num <= Len(Kernels2(kd.testname))

\* C38, its case: a TestDifferences of three entries, one with a null list
\* and two that hold KernelDiffs, under a criterion that leaves pairs out.
C38_Witness ==
    /\ dpc = "done"
    /\ criterion # "all"
    /\ td.total_num_diffs = 2
    /\ Len(td.test_diffs) = 3
    /\ \E e \in 1..Len(td.test_diffs) : td.test_diffs[e].kernel_diffs.is_none

\* ---------------------------------------------- claims: detecting the preamble
\* The lines of a file that precede its first kernel definition (all of them
\* when it has none), right-stripped and with the typedef replaced.
RECURSIVE LinesBeforeKernel(_)
LinesBeforeKernel(lines) ==
    IF lines = <<>> \/ is_kernel_definition(preamble_line(Head(lines))) THEN <<>>
    ELSE <<preamble_line(Head(lines))>> \o LinesBeforeKernel(Tail(lines))

\* The longest common prefix of the lines before the kernel of files[k..],
\* and of the lines so.
RECURSIVE CommonPreamble(_, _, _)
CommonPreamble(files, k, so) ==
    IF k > Len(files) THEN so
    ELSE LET mine == LinesBeforeKernel(readlines(files[k])) IN
         CommonPreamble(files, k + 1, SubSeq(so, 1, CommonPrefixLen(so, mine)))

ExpectedPreamble ==
    IF cuda = <<>> THEN <<>>
    ELSE CommonPreamble(cuda, 2, LinesBeforeKernel(readlines(cuda[1])))

\* C17: find_preamble leaves as preamble the longest common prefix of the
\* files' right-stripped, typedef-normalized lines that precede their first
\* kernel definition (all the lines of a file that has none), and as
\* preamble_size_lines its number of lines.
C17_PreambleIsLongestCommonPrefix ==
    ppc \in {"found", "again"} =>
        /\ pre.raised = NoneVal
        /\ pre.preamble = join_lines(ExpectedPreamble)
        /\ pre.preamble_size_lines = Len(ExpectedPreamble)

\* C18: find_preamble run again on the same files, in the same or another
\* order, leaves the same preamble text and line count.
C18_PreambleDetectionIsDeterministic ==
    ppc = "again" => pre = pre1

\* C18 holds on the directories that have no empty file.
DeterministicWithoutEmptyFiles ==
    (\A k \in 1..Len(cuda) : cuda[k] # <<>>) => C18_PreambleDetectionIsDeterministic

\* ------------------------------------------------- claims: loading kernels
\* The number of get_kernel calls made on kernel id.
CallsOn(id) == Cardinality({c \in 1..Len(lcalls) : lcalls[c] = id})

\* C20: after every later call of get_kernel with preamble stripping, a
\* kernel has the code, ptx and index_type that its first call left.
C20_GetKernelIsStable ==
    \A id \in DOMAIN first_load :
        LET now == TestOfRun(lst, 1, id[1]).kernels[id[2]] IN
        /\ now.code = first_load[id].code
        /\ now.ptx = first_load[id].ptx
        /\ now.index_type = first_load[id].index_type

\* C20, its case: a kernel with a PTX file and index type int64_t loaded
\* twice, its code without the preamble.
C20_Witness ==
    \E id \in DOMAIN first_load :
        LET now == TestOfRun(lst, 1, id[1]).kernels[id[2]] IN
        /\ CallsOn(id) >= 2
        /\ now.index_type = "int64_t"
        /\ now.ptx # NoneSeq
        /\ Len(splitlines(now.code)) = 3

\* The lines of the kernel's source file past the preamble, as one text,
\* with the kernel numbers replaced.
RetainedText(id) ==
    LET run == lst.shards[1]
        lines == readlines(run.files[TestOfRun(lst, 1, id[1]).kernels[id[2]].filename].cu) IN
    concat([k \in 1..(Len(lines) - run.preamble_size_lines) |->
                sub_nvfuser(lines[k + run.preamble_size_lines])])

\* The text with its final line removed if that line is exactly "}", and
\* without trailing whitespace.
WithoutClosingLine(text) ==
    LET ls == splitlines(rstrip(text)) IN
    IF ls # <<>> /\ ls[Len(ls)] = <<"}">>
    THEN rstrip(join_lines(SubSeq(ls, 1, Len(ls) - 1)))
    ELSE rstrip(text)

\* C22: get_kernel with preamble stripping ends without an exception, and
\* the code of every kernel loaded is the lines past preamble_size_lines,
\* without the final line if and only if that line is exactly "}", and
\* otherwise unchanged apart from trailing whitespace.
C22_StripRemovesClosingBraceLineOnly ==
    /\ lst.raised = NoneVal
    /\ \A id \in DOMAIN first_load :
          TestOfRun(lst, 1, id[1]).kernels[id[2]].code = WithoutClosingLine(RetainedText(id))

\* On the kernel files that end with a line that is exactly "}", or with a
\* line that holds no "}", C22 holds.
StripRemovesClosingBraceLine ==
    (\A f \in DOMAIN lst.shards[1].files :
        LET ls == splitlines(rstrip(lst.shards[1].files[f].cu)) IN
        /\ ls # <<>>
        /\ ls[Len(ls)] = <<"}">> \/ ls[Len(ls)][Len(ls[Len(ls)])] # "}")
        => C22_StripRemovesClosingBraceLineOnly

\* --------------------------------------------- claims: parsing a ptxas block
\* The reports of a unit in the block.
ReportsOf(unit) == SelectSeq(info, LAMBDA r : r.unit = unit)

\* The registers and the shared memory are the numbers reported.
RegistersAndSmemAsReported ==
    (kpc = "parsed" /\ info # NoneSeq) =>
        /\ ReportsOf("registers") # <<>> =>
              usage.registers = int(ReportsOf("registers")[1].n)
        /\ ReportsOf("bytes smem") # <<>> =>
              usage.smem_bytes = int(ReportsOf("bytes smem")[1].n)

\* C29: after parse_ptxas, registers and smem_bytes are the numbers
\* reported, and cmem_bank_bytes has one entry per reported bank, in bank
\* order: the bytes of that bank (472 bytes cmem[0] and 8 bytes cmem[2]
\* give [472, 8]).
C29_PtxasNumbersAsReported ==
    (kpc = "parsed" /\ info # NoneSeq) =>
        /\ RegistersAndSmemAsReported
        /\ usage.cmem_bank_bytes =
              [k \in 1..Len(ReportsOf("bytes cmem")) |-> int(ReportsOf("bytes cmem")[k].n)]

\* cmem_bank_bytes is indexed by the bank number: it has an entry for every
\* bank up to the highest one reported, 0 for a bank not reported.
BankBytesAreIndexedByBank ==
    (kpc = "parsed" /\ info # NoneSeq) =>
        LET cm == ReportsOf("bytes cmem") IN
        /\ Len(usage.cmem_bank_bytes) = IF cm = <<>> THEN 0 ELSE int(cm[Len(cm)].bank) + 1
        /\ \A b \in 1..Len(usage.cmem_bank_bytes) :
              usage.cmem_bank_bytes[b] =
                 IF \E k \in 1..Len(cm) : int(cm[k].bank) = b - 1
                 THEN int(cm[CHOOSE k \in 1..Len(cm) : int(cm[k].bank) = b - 1].n)
                 ELSE 0

====
